---------------------------- MODULE Spec2Model ----------------------------
(***************************************************************************)
(* Model of the batch pipeline engine (core/pipeline_new.py), the path     *)
(* manager (core/utils/path_manager.py) and the cross-environment bridge   *)
(* (core/utils/venv.py).                                                   *)
(*                                                                         *)
(* A path is a sequence of names, <<"in", "sub", "p.jpg">>.  The file      *)
(* system is `fs`, a function from the paths of the existing files to      *)
(* their content, and `dirs`, the set of existing directories.             *)
(*                                                                         *)
(* Names the source leaves unbound are read as the value the surrounding   *)
(* code evidently means, and each such reading is noted where it is made:  *)
(*   pipeline_new.py:34-36   config           -> self.config               *)
(*   pipeline_new.py:136     self.config["pipeline_steps"]                 *)
(*                                            -> self.pipeline_steps       *)
(*   pipeline_new.py:270     output_dir       -> the module's output_path  *)
(*   pipeline_new.py:279     video_path       -> input_dir                 *)
(*   venv.py:7               Optinal          -> Optional                  *)
(* These stand on the way of every run or every dispatch.  Two slips that  *)
(* stand on one branch only are modelled as written:                       *)
(*   pipeline_new.py:561     Union is not imported: NameError              *)
(*   pipeline_new.py:98      traceback.print_ecx: AttributeError           *)
(*                                                                         *)
(* Seven specifications share the actions:                                 *)
(*   Spec          run() on a loaded pipeline                              *)
(*   SpecBridge    EnvironmentManager.run_in_environment called directly   *)
(*   SpecValidate  the dispatch of a local module from its validation on   *)
(*   SpecLoad      load_config and register_module                         *)
(*   SpecPaths     the PathManager called directly                         *)
(*   SpecDispatch  the process loop of a step on a module of any kind      *)
(*   SpecReject    run() on steps with an invalid bridge action            *)
(***************************************************************************)
EXTENDS Integers, Sequences, FiniteSets, TLC

(***************************************************************************)
(* Bounds of the model.                                                    *)
(***************************************************************************)
\* the longest configured step list
MaxSteps == 2
\* the number of environment faults (I/O errors, failing modules, failing
\* child processes) one run may suffer
MaxFaults == 1

(***************************************************************************)
(* Names, extensions and categories.                                       *)
(***************************************************************************)
None == "None"

Cat == {"image", "video", "other"}

\* classify_files builds {"image": [], "video": [], "other": []}: a dict
\* iterates in insertion order
CatOrder == <<"image", "video", "other">>

\* os.path.splitext(name)[1] of the file names of the model
SplitExt == [n \in {"p.jpg", "q.JPG", "v.mp4", "r.txt"} |->
               CASE n = "p.jpg" -> ".jpg"
                 [] n = "q.JPG" -> ".JPG"
                 [] n = "v.mp4" -> ".mp4"
                 [] n = "r.txt" -> ".txt"]

\* str.lower() on the extensions of the model
Lower(e) == CASE e = ".JPG" -> ".jpg"
              [] OTHER -> e

supported_image_formats == {".jpg", ".jpeg", ".png", ".bmp", ".gif"}
supported_video_formats == {".mp4", ".mov", ".avi", ".mkv"}

\* position of a file or directory name in lexicographic (code point) order
NameRank(n) == CASE n = "_image_input" -> 1
                 [] n = "_other_input" -> 2
                 [] n = "_video_input" -> 3
                 [] n = "p.jpg" -> 4
                 [] n = "q.JPG" -> 5
                 [] n = "r.txt" -> 6
                 [] n = "sub" -> 7
                 [] n = "v.mp4" -> 8
                 [] OTHER -> 9

(***************************************************************************)
(* Paths.                                                                  *)
(***************************************************************************)
basename(p) == p[Len(p)]

join(d, n) == Append(d, n)

IsUnder(p, d) == Len(p) > Len(d) /\ SubSeq(p, 1, Len(d)) = d

\* PathManager.get_file_type
get_file_type(p) ==
  LET ext == Lower(SplitExt[basename(p)])
  IN  IF ext \in supported_image_formats THEN "image"
      ELSE IF ext \in supported_video_formats THEN "video"
      ELSE "other"


(***************************************************************************)
(* The file system.                                                        *)
(***************************************************************************)
Put(f, p, v) == [q \in DOMAIN f \cup {p} |-> IF q = p THEN v ELSE f[q]]

Remove(f, p) == [q \in DOMAIN f \ {p} |-> f[q]]

\* os.makedirs(d, exist_ok=True)
makedirs(ds, d) == ds \cup {SubSeq(d, 1, k) : k \in 1..Len(d)}

\* the order in which a directory listing yields a set of names: the
\* operating system fixes it, the code does not; `up` is one of the two
\* listings the model lets it produce (ascending or descending by name)
RECURSIVE Listing(_, _)
Listing(S, up) ==
  IF S = {} THEN <<>>
  ELSE LET m == CHOOSE x \in S : \A y \in S :
                  IF up THEN NameRank(x) <= NameRank(y)
                        ELSE NameRank(x) >= NameRank(y)
       IN  <<m>> \o Listing(S \ {m}, up)

\* os.walk(d), top down: the files of d, then each sub-directory's walk
RECURSIVE Walk(_, _, _), WalkDirs(_, _, _, _)
Walk(f, d, up) ==
  LET files == {p[Len(d) + 1] : p \in {q \in DOMAIN f : IsUnder(q, d) /\ Len(q) = Len(d) + 1}}
      subs  == {p[Len(d) + 1] : p \in {q \in DOMAIN f : IsUnder(q, d) /\ Len(q) > Len(d) + 1}}
      here  == Listing(files, up)
  IN  [i \in 1..Len(here) |-> join(d, here[i])] \o WalkDirs(f, d, Listing(subs, up), up)
WalkDirs(f, d, names, up) ==
  IF names = <<>> THEN <<>>
  ELSE Walk(f, join(d, Head(names)), up) \o WalkDirs(f, d, Tail(names), up)

\* PathManager.classify_files
classify_files(f, root_dir, up) ==
  LET walk == Walk(f, root_dir, up)
      Of(c) == SelectSeq(walk, LAMBDA p : get_file_type(p) = c)
  IN  [c \in Cat |-> Of(c)]

(***************************************************************************)
(* Batch transfer.  The result is [fs, ok]: ok = FALSE when shutil raised  *)
(* and the exception left the function, with the file system as the files  *)
(* transferred before it left it.  failAt is the index of the file on      *)
(* which an I/O error strikes, 0 for none.                                 *)
(***************************************************************************)
RECURSIVE CopyFrom(_, _, _, _, _, _)
CopyFrom(f, source_files, output_dir, overwrite, failAt, i) ==
  IF i > Len(source_files) THEN [fs |-> f, ok |-> TRUE]
  ELSE LET source_file == source_files[i]
           target_path == join(output_dir, basename(source_file))
       IN  IF target_path \in DOMAIN f /\ ~overwrite
             THEN CopyFrom(f, source_files, output_dir, overwrite, failAt, i + 1)
           ELSE IF \/ source_file \notin DOMAIN f     \* FileNotFoundError
                   \/ source_file = target_path       \* shutil.SameFileError
                   \/ i = failAt                      \* OSError
             THEN [fs |-> f, ok |-> FALSE]
           ELSE CopyFrom(Put(f, target_path, f[source_file]),
                         source_files, output_dir, overwrite, failAt, i + 1)

\* a batch copy that removes the files it was given
batch_copy_consuming(f, source_files, output_dir, overwrite, failAt) ==
  LET r == CopyFrom(f, source_files, output_dir, overwrite, failAt, 1)
      given == {source_files[i] : i \in 1..Len(source_files)}
  IN  [fs |-> [q \in DOMAIN r.fs \ given |-> r.fs[q]], ok |-> r.ok]

\* PathManager.batch_copy_files
batch_copy_files(f, source_files, output_dir, overwrite, failAt) ==
  CopyFrom(f, source_files, output_dir, overwrite, failAt, 1)

\* a move that leaves the source file where it was
MoveFromKeepingSource(f, source_files, output_dir, overwrite, failAt, i) ==
  CopyFrom(f, source_files, output_dir, overwrite, failAt, i)

RECURSIVE MoveFrom(_, _, _, _, _, _)
MoveFrom(f, source_files, output_dir, overwrite, failAt, i) ==
  IF i > Len(source_files) THEN [fs |-> f, ok |-> TRUE]
  ELSE LET source_file == source_files[i]
           target_path == join(output_dir, basename(source_file))
       IN  IF target_path \in DOMAIN f /\ ~overwrite
             THEN MoveFrom(f, source_files, output_dir, overwrite, failAt, i + 1)
           ELSE IF \/ source_file \notin DOMAIN f     \* FileNotFoundError
                   \/ i = failAt                      \* OSError
             THEN [fs |-> f, ok |-> FALSE]
           ELSE MoveFrom(IF source_file = target_path THEN f
                         ELSE Put(Remove(f, source_file), target_path, f[source_file]),
                         source_files, output_dir, overwrite, failAt, i + 1)

\* PathManager.batch_move_files
batch_move_files(f, source_files, output_dir, overwrite, failAt) ==
  MoveFrom(f, source_files, output_dir, overwrite, failAt, 1)

(***************************************************************************)
(* A PathManager of any configuration.                                     *)
(***************************************************************************)
\* the longest list of files one batch transfer is given
MaxBatch == 2

\* the extension lists a PathManager is constructed with; {} stands for None
\* and for the empty list, which `or` treats alike
FormatChoices == SUBSET {".jpg", ".mp4"}

\* PathManager.__init__: `supported_image_formats or [...]`
PathManager_init(image_formats, video_formats) ==
  [supported_image_formats |->
     IF image_formats = {} THEN {".jpg", ".jpeg", ".png", ".bmp"} ELSE image_formats,
   supported_video_formats |->
     IF video_formats = {} THEN {".mp4", ".avi", ".mov", ".mkv"} ELSE video_formats]

\* PathManager.get_file_type of the manager `self`
PathManager_get_file_type(self, file_path) ==
  LET ext == Lower(SplitExt[basename(file_path)])
  IN  IF ext \in self.supported_image_formats THEN "image"
      ELSE IF ext \in self.supported_video_formats THEN "video"
      ELSE "other"

\* a classification that tests each extension list on its own
classify_each_list(self, f, root_dir, up) ==
  LET walk == Walk(f, root_dir, up)
      ext(q) == Lower(SplitExt[basename(q)])
  IN  [c \in Cat |->
         SelectSeq(walk, LAMBDA q :
           CASE c = "image" -> ext(q) \in self.supported_image_formats
             [] c = "video" -> ext(q) \in self.supported_video_formats
             [] OTHER -> /\ ext(q) \notin self.supported_image_formats
                         /\ ext(q) \notin self.supported_video_formats)]

\* PathManager.classify_files of the manager `self`
PathManager_classify_files(self, f, root_dir, up) ==
  LET walk == Walk(f, root_dir, up)
      Of(c) == SelectSeq(walk, LAMBDA q : PathManager_get_file_type(self, q) = c)
  IN  [c \in Cat |-> Of(c)]

\* the `overwrite` argument of a transfer: None, True or False
OverwriteArgs == {None, "True", "False"}

\* a policy that overwrites whatever it is told, and one that never does
OverwriteAlways(overwrite, default) == TRUE

OverwriteNever(overwrite, default) == FALSE

\* `self.default_overwrite if overwrite is None else overwrite`
Overwrite(overwrite, default) ==
  IF overwrite = None THEN default ELSE overwrite = "True"

\* a transfer that returns no path at all
target_paths_none(source_files, output_dir) == <<>>

\* the list a batch transfer returns: one target path per source file
target_paths(source_files, output_dir) ==
  [i \in 1..Len(source_files) |-> join(output_dir, basename(source_files[i]))]

\* the lists of files a transfer is given: up to MaxBatch files of the
\* tree, none of them twice
RECURSIVE ListsOf(_, _)
ListsOf(S, n) ==
  IF n = 0 THEN {<<>>}
  ELSE LET shorter == ListsOf(S, n - 1)
       IN  shorter \cup {Append(l, x) : l \in {m \in shorter : Len(m) = n - 1}, x \in S}

SourceLists(f) ==
  {l \in ListsOf({q \in DOMAIN f : IsUnder(q, <<"in">>)}, MaxBatch) :
     \A i, j \in 1..Len(l) : i # j => l[i] # l[j]}

\* the trees a PathManager is exercised on: two files of one name in
\* different directories, and a destination that is absent or holds a file
\* of that name
PathTrees ==
  LET sources == (<<"in", "p.jpg">> :> "d1") @@ (<<"in", "sub", "p.jpg">> :> "d2")
                   @@ (<<"in", "v.mp4">> :> "d3")
  IN  {sources, sources @@ (<<"out", "p.jpg">> :> "d4")}

(***************************************************************************)
(* Configuration: the registry and the steps a run is loaded with.         *)
(***************************************************************************)
\* a config without "output_path": .get("output_path") is None
NoPath == <<>>

\* the registry after load_config: name -> {type, path, venv_path, config}
Registry ==
  [n \in {"blur", "filter", "plain"} |->
     CASE n = "blur"   -> [type |-> "external", path |-> "blur.py", venv_path |-> "venv1",
                           config |-> [output_path |-> <<"a">>]]
       [] n = "filter" -> [type |-> "local", path |-> "VideoDurationFilter", venv_path |-> None,
                           config |-> [output_path |-> <<"b">>]]
       [] n = "plain"  -> [type |-> "local", path |-> "BlurDetector", venv_path |-> None,
                           config |-> [output_path |-> NoPath]]]

\* the steps a configuration may list; "ghost" is registered by no module
\* entry (add_step accepts it with a warning).  A skip_types list names no
\* category twice: the bridge policy's skip categories are a set
StepMenu ==
  { [step_name |-> "blur_video", module_name |-> "blur",
     bridge |-> [skip_types |-> <<"image">>, action |-> "copy"]],
    [step_name |-> "filter_all", module_name |-> "filter",
     bridge |-> [skip_types |-> <<>>, action |-> "copy"]],
    [step_name |-> "blur_rest", module_name |-> "blur",
     bridge |-> [skip_types |-> <<"other", "image">>, action |-> "move"]],
    [step_name |-> "filter_link", module_name |-> "filter",
     bridge |-> [skip_types |-> <<"video">>, action |-> "link"]],
    [step_name |-> "plain_step", module_name |-> "plain",
     bridge |-> [skip_types |-> <<"image">>, action |-> "copy"]],
    [step_name |-> "ghost_step", module_name |-> "ghost",
     bridge |-> [skip_types |-> <<>>, action |-> "copy"]] }

StepLists == UNION {[1..n -> StepMenu] : n \in 0..MaxSteps}

\* the input trees a run is started on
InputTrees ==
  { (<<"in", "p.jpg">> :> "d1") @@ (<<"in", "q.JPG">> :> "d2") @@ (<<"in", "v.mp4">> :> "d3"),
    (<<"in", "p.jpg">> :> "d1") @@ (<<"in", "sub", "p.jpg">> :> "d2") @@ (<<"in", "r.txt">> :> "d3") }

\* the names the module's globals() resolves to a class (imports, lines 11-12)
KnownClasses == {"VideoDurationFilter", "BlurDetector"}

\* the external scripts present on disk
ExistingScripts == {"blur.py"}

\* what a module run leaves on disk: one result file per file of its input
\* directory, in its configured output directory
ModuleWrites(f, input_dir, out) ==
  LET staged == {p \in DOMAIN f : IsUnder(p, input_dir) /\ Len(p) = Len(input_dir) + 1}
  IN  [q \in DOMAIN f \cup {join(out, basename(p)) : p \in staged} |->
         IF \E p \in staged : q = join(out, basename(p)) THEN "processed" ELSE f[q]]

(***************************************************************************)
(* Python values and their JSON text (json.dump, json.load).               *)
(***************************************************************************)
\* the nesting depth of the request values a bridge call is given
MaxDepth == 1

\* Python values: None, bool, int, str, list, tuple, and dict as the sequence
\* of its items
PyNone     == [t |-> "none"]
PyBool(b)  == [t |-> "bool", b |-> b]
PyInt(n)   == [t |-> "int", n |-> n]
PyStr(s)   == [t |-> "str", s |-> s]
PyList(v)  == [t |-> "list", v |-> v]
PyTuple(v) == [t |-> "tuple", v |-> v]
PyDict(v)  == [t |-> "dict", items |-> v]
Item(k, v) == [key |-> k, value |-> v]

\* JSON texts, by what they denote: null, true/false, a number, a string, an
\* array, an object as the sequence of its members.  A file
\* can also hold nothing, or text that is no JSON
JNull      == [j |-> "null"]
JBool(b)   == [j |-> "bool", b |-> b]
JNumber(n) == [j |-> "number", n |-> n]
JString(s) == [j |-> "string", s |-> s]
JArray(v)  == [j |-> "array", v |-> v]
JObject(v) == [j |-> "object", members |-> v]
Member(n, v) == [name |-> n, value |-> v]
EmptyText  == [j |-> "empty"]
Garbage    == [j |-> "garbage"]

\* str(n) of the integers the model uses
DecStr(n) == CASE n = 0 -> "0" [] n = 1 -> "1" [] n = 2 -> "2"

\* json.dump: the keys of a dict are written as strings; an int key becomes its
\* decimal text, True/False "true"/"false", None "null"
KeyString(k) ==
  CASE k.t = "str"  -> k.s
    [] k.t = "int"  -> DecStr(k.n)
    [] k.t = "bool" -> IF k.b THEN "true" ELSE "false"
    [] k.t = "none" -> "null"

\* a bridge that writes the text of str(input_data) instead
dumpsStr(o) == JString(o)

\* json.dump (venv.py line 43): lists and tuples alike are written as arrays
RECURSIVE dumps(_)
dumps(o) ==
  CASE o.t = "none" -> JNull
    [] o.t = "bool" -> JBool(o.b)
    [] o.t = "int"  -> JNumber(o.n)
    [] o.t = "str"  -> JString(o.s)
    [] o.t \in {"list", "tuple"} -> JArray([i \in 1..Len(o.v) |-> dumps(o.v[i])])
    [] o.t = "dict" ->
         JObject([i \in 1..Len(o.items) |->
                    Member(KeyString(o.items[i].key), dumps(o.items[i].value))])

\* whether json.load accepts the text
IsJson(x) == x.j \notin {"empty", "garbage"}

\* json.load (venv.py line 70): an array is read as a list, an object as a
\* dict with str keys (the texts of the model name no member twice)
RECURSIVE loads(_)
loads(x) ==
  CASE x.j = "null"   -> PyNone
    [] x.j = "bool"   -> PyBool(x.b)
    [] x.j = "number" -> PyInt(x.n)
    [] x.j = "string" -> PyStr(x.s)
    [] x.j = "array"  -> PyList([i \in 1..Len(x.v) |-> loads(x.v[i])])
    [] x.j = "object" ->
         PyDict([i \in 1..Len(x.members) |->
                   Item(PyStr(x.members[i].name), loads(x.members[i].value))])

\* the request values a bridge call is given: scalars, and containers of the
\* values one level below
Scalars == {PyNone, PyBool(TRUE), PyInt(1), PyStr("a"), PyStr("1")}

DictKeys == {PyStr("a"), PyInt(1)}

RECURSIVE PyValues(_)
PyValues(d) ==
  IF d = 0 THEN Scalars
  ELSE LET below == PyValues(d - 1)
       IN  below
           \cup {PyList(<<>>), PyDict(<<>>)}
           \cup {PyList(<<x>>) : x \in below}
           \cup {PyList(<<x, y>>) : x \in Scalars, y \in Scalars}
           \cup {PyTuple(<<x>>) : x \in below}
           \cup {PyDict(<<Item(k, x)>>) : k \in DictKeys, x \in below}

\* the values JSON holds as they are: no tuple, and no dict key but a str
RECURSIVE JsonNative(_)
JsonNative(o) ==
  CASE o.t \in {"none", "bool", "int", "str"} -> TRUE
    [] o.t = "list"  -> \A i \in 1..Len(o.v) : JsonNative(o.v[i])
    [] o.t = "tuple" -> FALSE
    [] o.t = "dict"  -> \A i \in 1..Len(o.items) :
                           o.items[i].key.t = "str" /\ JsonNative(o.items[i].value)

(***************************************************************************)
(* EnvironmentManager: the command line and the returned pair.             *)
(***************************************************************************)
\* the environment paths os.path.exists finds, and those of them that hold a
\* conda-meta directory
ExistingEnvs == {"venv1", "conda1"}
CondaEnvs    == {"conda1"}

\* os.name
OsNames == {"posix", "nt"}

\* the environments a bridge call may name; None names none, "gone" names a
\* path that does not exist
EnvNames == {None, "venv1", "conda1", "gone"}

\* `return []`, line 16
NoPrefix == <<>>

\* get_activate_command, lines 13-33.  A command line is the sequence of the
\* words that ' '.join and the f-strings put one after the other
get_activate_command(venv_path, os) ==
  IF venv_path = None \/ venv_path \notin ExistingEnvs
    THEN NoPrefix
  ELSE IF os = "nt"
    THEN IF venv_path \in CondaEnvs
           THEN <<"conda", "activate", venv_path, "&&">>
           ELSE <<<<venv_path, "Scripts", "activate.bat">>, "&&">>
  ELSE IF venv_path \in CondaEnvs
    THEN <<".", "$(conda info --base)/etc/profile.d/conda.sh", "&&",
           "conda", "activate", venv_path, "&&">>
    ELSE <<"source", <<venv_path, "bin", "activate">>, "&&">>

\* lines 51-56: command_parts, command_str, full_command
full_command(activate_cmd, command, input_file, output_file) ==
  LET command_str == command \o <<input_file, output_file>>
  IN  IF activate_cmd # NoPrefix THEN activate_cmd \o command_str ELSE command_str

\* a bridge whose error string leaves out what the child wrote to stderr
CommandFailedBare(returncode, stderr, command) ==
  [kind |-> "command_failed", returncode |-> returncode, stderr |-> "",
   command |-> command]

\* line 76: "命令执行失败: 退出码 {returncode}, 错误: {stderr}, 命令: {full_command}"
CommandFailed(returncode, stderr, command) ==
  [kind |-> "command_failed", returncode |-> returncode, stderr |-> stderr,
   command |-> command]

\* a bridge that reports every failure with the text of line 76
ProcessingErrorAsExit(e, command) ==
  [kind |-> "command_failed", returncode |-> 0, stderr |-> e, command |-> command]

\* line 78: "处理过程出错: {str(e)}, 命令: {full_command}"
ProcessingError(e, command) ==
  [kind |-> "processing_error", message |-> e, command |-> command]

\* what subprocess.run can end as: the child exited 0 and left a valid
\* response, exited 0 and left the output file empty, or without valid JSON,
\* or removed it, exited non-zero, or the shell did not start
ChildResults ==
  {"exit0", "exit0_empty", "exit0_invalid", "exit0_removed", "nonzero", "oserror"}

\* no child has run
NoChild == [args |-> None, raised |-> None, returncode |-> None, stderr |-> None]

\* subprocess.run with check=True, lines 60-66: the completed process, or the
\* exception raised
ChildOf(res, args) ==
  CASE res = "nonzero" -> [args |-> args, raised |-> "CalledProcessError",
                           returncode |-> 1, stderr |-> "Traceback"]
    [] res = "oserror" -> [args |-> args, raised |-> "OSError",
                           returncode |-> None, stderr |-> None]
    [] OTHER           -> [args |-> args, raised |-> "none",
                           returncode |-> 0, stderr |-> ""]

\* the response text an external module leaves in its output file on success:
\* echo.py copies its input file, any other module writes its own summary
ScriptOutput(script, input_text) ==
  IF script = "echo.py" THEN input_text
  ELSE dumps(PyDict(<<Item(PyStr("status"), PyStr("done"))>>))

\* lines 68-78: the pair run_in_environment returns.  The output file is
\* opened only when subprocess.run returned
bridge_result(c, out_exists, out_text) ==
  CASE c.raised = "CalledProcessError" ->
         [response |-> PyNone, error |-> CommandFailed(c.returncode, c.stderr, c.args)]
    [] c.raised = "OSError" ->
         [response |-> PyNone, error |-> ProcessingError("OSError", c.args)]
    [] c.raised = "none" /\ ~out_exists ->
         [response |-> PyNone, error |-> ProcessingError("FileNotFoundError", c.args)]
    [] c.raised = "none" /\ out_exists /\ ~IsJson(out_text) ->
         [response |-> PyNone, error |-> ProcessingError("JSONDecodeError", c.args)]
    [] OTHER ->
         [response |-> loads(out_text), error |-> PyNone]

\* lines 290-293: the request _process_batch_with_module hands to the bridge
Request(input_dir, module_config) ==
  PyDict(<<Item(PyStr("file_path"), PyStr(input_dir)),
           Item(PyStr("config"),
                PyDict(<<Item(PyStr("output_path"), PyStr(module_config.output_path))>>))>>)

(***************************************************************************)
(* DataProcessingPipeline._validate_init_params                            *)
(***************************************************************************)
\* the number of parameters (besides self) of a handler's __init__
MaxParams == 2

\* a parameter's annotation: inspect.Parameter.empty, a class, or a
\* typing.Union / Optional of classes
NoAnnotation == [kind |-> "empty", types |-> <<>>]
ClassAnn(T)  == [kind |-> "class", types |-> <<T>>]
UnionAnn(Ts) == [kind |-> "union", types |-> Ts]

Annotations == {NoAnnotation, ClassAnn("str"), ClassAnn("int"),
                UnionAnn(<<"str", "NoneType">>)}

\* the names a signature or a configuration uses, in declaration order
ParamNames == <<"a", "b", "c">>

\* inspect.signature(module_class.__init__) without self, line 501: each
\* parameter's name, whether it has a default, its annotation
Signatures ==
  UNION { { [i \in 1..k |-> [name |-> ParamNames[i], has_default |-> d[i],
                             annotation |-> a[i]]] :
              d \in [1..k -> BOOLEAN], a \in [1..k -> Annotations] } :
          k \in 0..MaxParams }

\* the values a configuration gives a parameter
ParamValues == {PyStr("x"), PyInt(1), PyNone}

\* init_params, lines 278-279: a value for some of the names
ParamSets ==
  UNION { [names -> ParamValues] : names \in SUBSET {ParamNames[i] : i \in 1..Len(ParamNames)} }

\* the names the module binds from typing, line 9
ImportedFromTyping == {"Dict", "List", "Any", "Optional", "Tuple"}

\* type(value).__name__
TypeName(v) == IF v.t = "none" THEN "NoneType" ELSE v.t

\* isinstance(value, T); bool is a subclass of int
IsInstance(v, T) == TypeName(v) = T \/ (TypeName(v) = "bool" /\ T = "int")

\* a validation that takes every parameter for a required one
IsRequiredAlways(p) == TRUE

\* line 516: param.default == inspect.Parameter.empty
IsRequired(p) == ~p.has_default

\* _validate_init_params returned without raising
Passed ==
  [raised |-> "none", missing |-> <<>>, required |-> <<>>, extra |-> {},
   param |-> None, expected |-> <<>>, actual |-> None, value |-> PyNone]

\* lines 535-570: the supplied parameters are checked against their
\* annotations, in the order of the signature.  An annotation that is no class
\* reaches line 561, whose `Union` the module never imports: the test raises
\* NameError, which the `except ImportError` of line 569 does not catch
RECURSIVE TypeCheck(_, _, _, _)
TypeCheck(sig, params, extra, i) ==
  IF i > Len(sig) THEN [Passed EXCEPT !.extra = extra]
  ELSE LET p == sig[i]
           mismatch == [Passed EXCEPT !.raised = "TypeError", !.extra = extra,
                                      !.param = p.name,
                                      !.expected = p.annotation.types,
                                      !.actual = TypeName(params[p.name]),
                                      !.value = params[p.name]]
       IN  IF p.name \notin DOMAIN params \/ p.annotation.kind = "empty"
             THEN TypeCheck(sig, params, extra, i + 1)
           ELSE IF p.annotation.kind = "class"
             THEN IF IsInstance(params[p.name], p.annotation.types[1])
                    THEN TypeCheck(sig, params, extra, i + 1)
                    ELSE mismatch
           ELSE IF "Union" \notin ImportedFromTyping
             THEN [Passed EXCEPT !.raised = "NameError", !.extra = extra,
                                 !.param = p.name]
           ELSE IF \E k \in 1..Len(p.annotation.types) :
                     IsInstance(params[p.name], p.annotation.types[k])
             THEN TypeCheck(sig, params, extra, i + 1)
             ELSE mismatch

\* lines 507-570: the ValueError names the missing and the required
\* parameters; the parameters the signature does not know are printed as a
\* warning (extra, as a set); then the types are checked
validate_init_params(sig, params) ==
  LET init_param_names == {sig[i].name : i \in 1..Len(sig)}
      required_params == SelectSeq(sig, IsRequired)
      missing_params == SelectSeq(required_params, LAMBDA p : p.name \notin DOMAIN params)
      extra_params == DOMAIN params \ init_param_names
      names(q) == [i \in 1..Len(q) |-> q[i].name]
  IN  IF missing_params # <<>>
        THEN [Passed EXCEPT !.raised = "ValueError",
                            !.missing = names(missing_params),
                            !.required = names(required_params)]
        ELSE TypeCheck(sig, params, extra_params, 1)

\* lines 265-267: self.modules.get(module_name), and the ValueError
\* "模块 ... 未注册" when there is none
NotRegistered == [type |-> "not registered"]
resolve(mods, name) == IF name \in DOMAIN mods THEN mods[name] ELSE NotRegistered

\* a dispatch that constructs the handler whatever the validation said
MayConstructAlways(v) == TRUE

\* line 280: a validation that raises leaves _process_batch_with_module
MayConstruct(v) == v.raised = "none"

\* the constructors of the classes the module imports: the handler takes the
\* module's configuration and the injected input path
HandlerSignature ==
  [c \in KnownClasses |->
     <<[name |-> "video_path", has_default |-> FALSE, annotation |-> NoAnnotation],
       [name |-> "output_path", has_default |-> FALSE, annotation |-> NoAnnotation]>>]

\* a dispatch that takes every script for present
ScriptExistsAlways(path) == TRUE

\* line 287: os.path.exists(module_info["path"])
ScriptExists(path) == path \in ExistingScripts

\* a dispatch that writes the input directory into the registered dict
ConfigWrittenInPlace(module_config, input_dir) ==
  [n \in DOMAIN module_config \cup {"video_path"} |->
     IF n = "video_path" THEN input_dir ELSE module_config[n]]

\* lines 177, 278-279: module_config is the dict the registry holds;
\* init_params is a copy of it, so the item assignment of line 279 leaves
\* the registered dict as it was
ConfigAfterDispatch(module_config, input_dir) == module_config

\* lines 278-279: module_config.copy() with the input directory added
InitParams(module_config, input_dir) ==
  [n \in DOMAIN module_config \cup {"video_path"} |->
     IF n = "video_path" THEN PyStr(input_dir) ELSE PyStr(module_config[n])]

(***************************************************************************)
(* State.                                                                  *)
(***************************************************************************)
VARIABLES
  modules,             \* self.modules
  pipeline_steps,      \* self.pipeline_steps
  stop_on_error,       \* self.config["stop_on_error"]
  default_overwrite,   \* self.path_manager.default_overwrite
  input_path,          \* the argument of run()
  fs, dirs,            \* files (path -> content) and directories on disk
  tmp,                 \* the bridge's temporary files on disk: <<call, "in" | "out">>
  pc,                  \* where run() stands
  idx,                 \* 1-based position of the for loop of run() in the step list
  current_dir, current_classified, all_results,   \* locals of run()
  output_dir, step_result, pos, file_type,        \* locals of _process_step
  outcome,             \* how the dispatch in flight ended: "none", "ok", "error"
  envCalls, exit_code, \* run_in_environment: calls so far, the child's result
  os_name,             \* os.name of the host
  call,                \* run_in_environment: venv_path, command, input_data
  io,                  \* the text of the input and of the output temporary file
  child,               \* what subprocess.run returned or raised
  ret,                 \* the pair run_in_environment returned
  handler,             \* the signature of the class the dispatch resolved
  init_params,         \* the parameters the handler is to be constructed with
  validation,          \* what _validate_init_params came to
  config_file,         \* the configuration load_config has read
  load_pos,            \* 1-based position of _load_modules / _load_steps in its section
  path_manager,        \* the extension lists of the PathManager
  pm_call,             \* the PathManager call observed last (a call made directly, or a
                       \* bridge transfer of a run): its arguments, the tree before it
  pm_ret,              \* what that call returned, or that it raised
  faults,              \* environment faults so far
  log                  \* history: what the run has done, in order

vars == <<modules, pipeline_steps, stop_on_error, default_overwrite, input_path,
          fs, dirs, tmp, pc, idx, current_dir, current_classified, all_results,
          output_dir, step_result, pos, file_type, outcome, envCalls, exit_code,
          os_name, call, io, child, ret, handler, init_params, validation,
          config_file, load_pos, path_manager, pm_call, pm_ret, faults, log>>

load_vars   == <<config_file, load_pos>>
path_vars   == <<path_manager, pm_call, pm_ret>>
static_vars == <<modules, pipeline_steps, stop_on_error, default_overwrite, input_path,
                 os_name, load_vars, path_manager>>
config_vars == <<modules, pipeline_steps, stop_on_error, default_overwrite, input_path,
                 os_name, load_vars, path_vars>>

\* no configuration file is being loaded
NoConfig == [modules |-> <<>>, pipeline_steps |-> <<>>]
step_vars   == <<output_dir, step_result, pos, file_type>>
call_vars   == <<call, io, child, ret>>
local_vars  == <<handler, init_params, validation>>
env_vars    == <<tmp, envCalls, exit_code, call_vars, local_vars>>

\* no bridge call is in flight
NoCall == [venv_path |-> None, command |-> <<>>, input_data |-> PyNone]
NoIo   == [in |-> EmptyText, out |-> EmptyText]
NoRet  == [response |-> PyNone, error |-> PyNone]

\* no local dispatch is in flight
NoHandler    == <<>>
NoParams     == <<>>
NoValidation == [Passed EXCEPT !.raised = None]

EmptyClassified == [c \in Cat |-> <<>>]

\* no PathManager call has been made
NoPmCall == [op |-> None, dir |-> <<>>, source_files |-> <<>>, overwrite |-> None,
             before |-> <<>>]
NoPmRet  == [raised |-> FALSE, target_paths |-> <<>>, classified |-> EmptyClassified]

\* lines 33-36: the pipeline's PathManager is built from its configuration
PipelinePathManager == PathManager_init(supported_image_formats, supported_video_formats)

\* _process_step, lines 183-189
EmptyStepResult ==
  [processed_types |-> <<>>, processed_count |-> 0, bridged |-> <<>>,
   errors |-> <<>>, module_details |-> {}]

Event(kind, type) == [step |-> idx, kind |-> kind, type |-> type]

Init ==
  /\ modules = Registry
  /\ pipeline_steps \in StepLists
  /\ stop_on_error \in BOOLEAN
  /\ default_overwrite \in BOOLEAN
  /\ input_path \in {<<"in">>, <<"nowhere">>}
  /\ fs \in InputTrees
  /\ dirs = {<<"in">>} \cup {SubSeq(p, 1, Len(p) - 1) : p \in DOMAIN fs}
  /\ tmp = {}
  /\ pc = "idle"
  /\ idx = 0
  /\ current_dir = NoPath
  /\ current_classified = EmptyClassified
  /\ all_results = <<>>
  /\ output_dir = NoPath
  /\ step_result = EmptyStepResult
  /\ pos = 0
  /\ file_type = None
  /\ outcome = "none"
  /\ envCalls = 0
  /\ exit_code = None
  /\ os_name = "posix"
  /\ call = NoCall
  /\ io = NoIo
  /\ child = NoChild
  /\ ret = NoRet
  /\ handler = NoHandler
  /\ init_params = NoParams
  /\ validation = NoValidation
  /\ config_file = NoConfig
  /\ load_pos = 0
  /\ path_manager = PipelinePathManager
  /\ pm_call = NoPmCall
  /\ pm_ret = NoPmRet
  /\ faults = 0
  /\ log = <<>>

(***************************************************************************)
(* DataProcessingPipeline.run                                              *)
(***************************************************************************)
Range(q) == {q[i] : i \in 1..Len(q)}

\* the step the for loop of run() stands on
step == pipeline_steps[idx]

\* a run() that takes every step for one with an output location
HasOutputPathAlways(output_path) == TRUE

\* line 142: `if not output_path`
HasOutputPath(output_path) == output_path # NoPath

\* a run() that keeps the classification it entered the step with
NextClassifiedStale(f, out, up, old) == old

\* line 155: the classification that seeds the next step
NextClassified(f, out, up, old) == classify_files(f, out, up)

\* a run() that puts the newest report first
AppendReportFront(results, report) == <<report>> \o results

\* line 157: all_results["steps"].append(...)
AppendReport(results, report) == Append(results, report)

\* lines 180: the bridge actions _process_step accepts
\* a _process_step that takes any action for a valid one
BridgeActionsAny == {"copy", "move", "link"}

BridgeActions == {"copy", "move"}

\* lines 121-134: the input path is checked, classified once, the locals set
Run ==
  /\ pc = "idle"
  /\ IF input_path \notin dirs
       THEN /\ pc' = "returned_empty"
            /\ UNCHANGED <<idx, current_dir, current_classified, all_results, log>>
       ELSE \E up \in BOOLEAN :
            /\ current_classified' = classify_files(fs, input_path, up)
            /\ current_dir' = input_path
            /\ all_results' = <<>>
            /\ idx' = 1
            /\ pc' = "loop"
            /\ log' = Append(log, [step |-> 0, kind |-> "classify", type |-> None])
  /\ UNCHANGED <<config_vars, step_vars, env_vars, fs, dirs, outcome, faults>>

\* lines 168-169: the loop is exhausted
Complete ==
  /\ pc = "loop"
  /\ idx > Len(pipeline_steps)
  /\ pc' = "completed"
  /\ UNCHANGED <<config_vars, step_vars, env_vars, fs, dirs, idx, current_dir,
                 current_classified, all_results, outcome, faults, log>>

\* line 138: self.modules[step["module_name"]] of an unregistered module is a
\* KeyError, raised outside the try of lines 145-166: it leaves run()
LookupFails ==
  /\ pc = "loop"
  /\ idx <= Len(pipeline_steps)
  /\ step.module_name \notin DOMAIN modules
  /\ pc' = "raised"
  /\ UNCHANGED <<config_vars, step_vars, env_vars, fs, dirs, idx, current_dir,
                 current_classified, all_results, outcome, faults, log>>

\* lines 142-144: no output_path, `continue`
SkipStep ==
  /\ pc = "loop"
  /\ idx <= Len(pipeline_steps)
  /\ step.module_name \in DOMAIN modules
  /\ ~HasOutputPath(modules[step.module_name].config.output_path)
  /\ idx' = idx + 1
  /\ UNCHANGED <<config_vars, step_vars, env_vars, fs, dirs, pc, current_dir,
                 current_classified, all_results, outcome, faults, log>>

\* lines 180-181 and 164-166: _process_step raises ValueError on a bridge
\* action that is neither copy nor move; run() catches it and returns
RejectStep ==
  /\ pc = "loop"
  /\ idx <= Len(pipeline_steps)
  /\ step.module_name \in DOMAIN modules
  /\ HasOutputPath(modules[step.module_name].config.output_path)
  /\ step.bridge.action \notin BridgeActions
  /\ pc' = "returned"
  /\ UNCHANGED <<config_vars, step_vars, env_vars, fs, dirs, idx, current_dir,
                 current_classified, all_results, outcome, faults, log>>

\* lines 147-152 and 174-189: _process_step is entered
EnterStep ==
  /\ pc = "loop"
  /\ idx <= Len(pipeline_steps)
  /\ step.module_name \in DOMAIN modules
  /\ HasOutputPath(modules[step.module_name].config.output_path)
  /\ step.bridge.action \in BridgeActions
  /\ output_dir' = modules[step.module_name].config.output_path
  /\ step_result' = EmptyStepResult
  /\ pos' = 1
  /\ file_type' = None
  /\ pc' = "bridge"
  /\ log' = Append(log, Event("enter", None))
  /\ UNCHANGED <<config_vars, env_vars, fs, dirs, idx, current_dir,
                 current_classified, all_results, outcome, faults>>

(***************************************************************************)
(* DataProcessingPipeline._process_step                                    *)
(***************************************************************************)
\* input_classified is current_classified (line 149)
skip_types == step.bridge.skip_types

\* a process loop that takes every category, the skipped ones too
process_types_all == CatOrder

\* line 226
process_types == SelectSeq(CatOrder, LAMBDA t : t \notin Range(skip_types))

\* line 234: f"_{file_type}_input"
StagingName(t) == CASE t = "image" -> "_image_input"
                    [] t = "video" -> "_video_input"
                    [] t = "other" -> "_other_input"

\* a _process_step that takes up a failed category again
ResumeRetry(p, last) == p

\* a _process_step whose except clause stands outside the loop: a category's
\* failure ends the loop
ResumeAbort(p, last) == last + 1

\* lines 218-223 and 254-259: the except clauses stand inside the loops, so
\* after a category's failure the loop goes on with the next category
Resume(p, last) == p + 1

AddError(result, t, stage) ==
  [result EXCEPT !.errors = Append(@, [type |-> t, stage |-> stage])]

\* lines 212-216
AddBridged(result, t, n, action) ==
  [result EXCEPT !.bridged = Append(@, [type |-> t, count |-> n, action |-> action])]

\* a _process_step that counts the processed categories, not their files
AddProcessedOne(result, t, n) ==
  [result EXCEPT !.module_details = @ \cup {t},
                 !.processed_types = Append(@, t),
                 !.processed_count = @ + 1]

\* lines 250-252
AddProcessed(result, t, n) ==
  [result EXCEPT !.module_details = @ \cup {t},
                 !.processed_types = Append(@, t),
                 !.processed_count = @ + n]

\* lines 192-223: one round of the bridge loop
BridgeType ==
  /\ pc = "bridge"
  /\ pos <= Len(skip_types)
  /\ LET t == skip_types[pos]
     IN  IF t \notin DOMAIN current_classified \/ current_classified[t] = <<>>
           THEN /\ pos' = pos + 1
                /\ UNCHANGED <<fs, dirs, step_result, faults, log, pm_call, pm_ret>>
           ELSE \E failAt \in 0..Len(current_classified[t]) :
                /\ failAt > 0 => faults < MaxFaults
                /\ LET source_files == current_classified[t]
                       r == IF step.bridge.action = "copy"
                              THEN batch_copy_files(fs, source_files, output_dir,
                                                    default_overwrite, failAt)
                              ELSE batch_move_files(fs, source_files, output_dir,
                                                    default_overwrite, failAt)
                   IN  /\ fs' = r.fs
                       /\ dirs' = makedirs(dirs, output_dir)
                       /\ step_result' =
                            IF r.ok THEN AddBridged(step_result, t, Len(source_files),
                                                    step.bridge.action)
                                    ELSE AddError(step_result, t, "bridge")
                       /\ pos' = IF r.ok THEN pos + 1 ELSE Resume(pos, Len(skip_types))
                       /\ pm_call' = [op |-> IF step.bridge.action = "copy"
                                               THEN "batch_copy_files"
                                               ELSE "batch_move_files",
                                      dir |-> output_dir, source_files |-> source_files,
                                      overwrite |-> None, before |-> fs]
                       /\ pm_ret' = [NoPmRet EXCEPT
                                       !.raised = ~r.ok,
                                       !.target_paths =
                                         IF r.ok THEN target_paths(source_files, output_dir)
                                                 ELSE <<>>]
                /\ faults' = IF failAt > 0 THEN faults + 1 ELSE faults
                /\ log' = Append(log, Event("bridge", t))
  /\ UNCHANGED <<static_vars, env_vars, pc, idx, current_dir, current_classified,
                 all_results, output_dir, file_type, outcome>>

\* the bridge loop is exhausted; line 226
BridgeDone ==
  /\ pc = "bridge"
  /\ pos > Len(skip_types)
  /\ pc' = "process"
  /\ pos' = 1
  /\ UNCHANGED <<config_vars, env_vars, fs, dirs, idx, current_dir, current_classified,
                 all_results, output_dir, step_result, file_type, outcome, faults, log>>

\* lines 227-241: the category's files are staged for the module
Stage ==
  /\ pc = "process"
  /\ pos <= Len(process_types)
  /\ LET t == process_types[pos]
         source_files == current_classified[t]
         module_input_dir == join(output_dir, StagingName(t))
     IN  /\ file_type' = t
         /\ IF source_files = <<>>
              THEN /\ pos' = pos + 1
                   /\ UNCHANGED <<fs, dirs, step_result, faults, log, pc>>
              ELSE \E failAt \in 0..Len(source_files) :
                   /\ failAt > 0 => faults < MaxFaults
                   /\ LET r == batch_copy_files(fs, source_files, module_input_dir,
                                                default_overwrite, failAt)
                      IN  /\ fs' = r.fs
                          /\ dirs' = makedirs(dirs, module_input_dir)
                          /\ IF r.ok
                               THEN /\ pc' = "dispatch"
                                    /\ UNCHANGED <<step_result, pos>>
                               ELSE /\ step_result' = AddError(step_result, t, "process")
                                    /\ pos' = Resume(pos, Len(process_types))
                                    /\ pc' = "process"
                   /\ faults' = IF failAt > 0 THEN faults + 1 ELSE faults
                   /\ log' = Append(log, Event("stage", t))
  /\ UNCHANGED <<config_vars, env_vars, idx, current_dir, current_classified,
                 all_results, output_dir, outcome>>

\* lines 250-259: the dispatch's result or exception is recorded
Record ==
  /\ pc = "record"
  /\ step_result' =
       IF outcome = "ok"
         THEN AddProcessed(step_result, file_type, Len(current_classified[file_type]))
         ELSE AddError(step_result, file_type, "process")
  /\ outcome' = "none"
  /\ pos' = IF outcome = "ok" THEN pos + 1 ELSE Resume(pos, Len(process_types))
  /\ pc' = "process"
  /\ call' = NoCall /\ io' = NoIo /\ child' = NoChild /\ ret' = NoRet
  /\ handler' = NoHandler /\ init_params' = NoParams /\ validation' = NoValidation
  /\ UNCHANGED <<config_vars, tmp, envCalls, exit_code, fs, dirs, idx, current_dir,
                 current_classified, all_results, output_dir, file_type, faults, log>>

\* line 261: the process loop is exhausted, _process_step returns
ProcessDone ==
  /\ pc = "process"
  /\ pos > Len(process_types)
  /\ pc' = "endstep"
  /\ UNCHANGED <<config_vars, step_vars, env_vars, fs, dirs, idx, current_dir,
                 current_classified, all_results, outcome, faults, log>>

\* lines 155-163: the output directory is classified and the report appended.
\* current_dir is assigned before the report is built, so the report's
\* input_dir and input_classified are those of the step's output directory
EndStep ==
  /\ pc = "endstep"
  /\ \E up \in BOOLEAN :
       LET classified == NextClassified(fs, output_dir, up, current_classified)
       IN  /\ current_classified' = classified
           /\ current_dir' = output_dir
           /\ all_results' = AppendReport(all_results,
                [step_name |-> step.step_name,
                 input_dir |-> output_dir,
                 input_classified |-> [c \in Cat |-> Len(classified[c])],
                 output_dir |-> output_dir,
                 result |-> step_result])
  /\ idx' = idx + 1
  /\ pc' = "loop"
  /\ log' = Append(log, Event("report", None))
  /\ UNCHANGED <<config_vars, step_vars, env_vars, fs, dirs, outcome, faults>>

(***************************************************************************)
(* DataProcessingPipeline._process_batch_with_module                       *)
(***************************************************************************)
\* lines 265-306 up to the validation of a local module's parameters or the
\* call of the bridge.  Line 270 creates the module's output directory
Dispatch ==
  /\ pc = "dispatch"
  /\ LET module_info == resolve(modules, step.module_name)
         module_input_dir == join(output_dir, StagingName(file_type))
         out == module_info.config.output_path
     IN  /\ dirs' = IF module_info = NotRegistered THEN dirs
                    ELSE makedirs(dirs, out)       \* line 270
         /\ modules' = IF /\ module_info # NotRegistered
                          /\ module_info.type = "local"
                          /\ module_info.path \in KnownClasses
                         THEN [modules EXCEPT ![step.module_name].config =
                                 ConfigAfterDispatch(@, module_input_dir)]
                         ELSE modules
         /\ CASE module_info = NotRegistered ->     \* line 267
                   /\ outcome' = "error"
                   /\ pc' = "record"
                   /\ UNCHANGED <<call, handler, init_params>>
              [] module_info.type = "local" ->
                   IF module_info.path \notin KnownClasses
                     THEN /\ outcome' = "error"      \* line 276
                          /\ pc' = "record"
                          /\ UNCHANGED <<call, handler, init_params>>
                     ELSE /\ handler' = HandlerSignature[module_info.path]
                          /\ init_params' = InitParams(module_info.config, module_input_dir)
                          /\ pc' = "validate"
                          /\ UNCHANGED <<call, outcome>>
              [] module_info.type = "external" ->
                   IF ~ScriptExists(module_info.path)
                     THEN /\ outcome' = "error"      \* line 288
                          /\ pc' = "record"
                          /\ UNCHANGED <<call, handler, init_params>>
                     ELSE /\ call' = [venv_path |-> module_info.venv_path,   \* lines 290-299
                                      command |-> <<"python", module_info.path>>,
                                      input_data |-> Request(module_input_dir,
                                                             module_info.config)]
                          /\ pc' = "env_create"
                          /\ UNCHANGED <<outcome, handler, init_params>>
              [] OTHER ->                            \* line 306
                   /\ outcome' = "error"
                   /\ pc' = "record"
                   /\ UNCHANGED <<call, handler, init_params>>
  /\ log' = Append(log, Event("dispatch", file_type))
  /\ UNCHANGED <<pipeline_steps, stop_on_error, default_overwrite, input_path, os_name,
                 load_vars, path_vars, step_vars, tmp, envCalls, exit_code, io, child,
                 ret, validation, fs, faults, idx, current_dir, current_classified,
                 all_results>>

\* line 280: the parameters are validated against the handler's signature; a
\* validation that raises ends the dispatch
Validate ==
  /\ pc = "validate"
  /\ validation' = validate_init_params(handler, init_params)
  /\ IF MayConstruct(validation')
       THEN /\ pc' = "construct"
            /\ UNCHANGED outcome
       ELSE /\ outcome' = "error"
            /\ pc' = "record"
  /\ UNCHANGED <<config_vars, step_vars, tmp, envCalls, exit_code, call_vars, handler,
                 init_params, fs, dirs, faults, log, idx, current_dir,
                 current_classified, all_results>>

\* lines 282-283: the handler is constructed and its process() called
Construct ==
  /\ pc = "construct"
  /\ \E ok \in BOOLEAN :
       /\ ~ok => faults < MaxFaults
       /\ fs' = IF ok THEN ModuleWrites(fs, join(output_dir, StagingName(file_type)),
                                        modules[step.module_name].config.output_path)
                      ELSE fs
       /\ outcome' = IF ok THEN "ok" ELSE "error"
       /\ faults' = IF ok THEN faults ELSE faults + 1
  /\ pc' = "record"
  /\ log' = Append(log, Event("launch", file_type))
  /\ UNCHANGED <<config_vars, step_vars, env_vars, dirs, idx, current_dir,
                 current_classified, all_results>>

(***************************************************************************)
(* EnvironmentManager.run_in_environment                                   *)
(***************************************************************************)
\* the temporary files of the call in flight
InputFile  == <<envCalls, "in">>
OutputFile == <<envCalls, "out">>

\* lines 38-47: the request is written to the input file and the output
\* file created empty, both with delete=False, before the try of line 49.
\* When json.dump raises, the input file already exists and the exception
\* leaves run_in_environment past its finally
EnvCreate ==
  /\ pc = "env_create"
  /\ envCalls' = envCalls + 1
  /\ \E dumped \in BOOLEAN :
       /\ ~dumped => faults < MaxFaults
       /\ IF dumped
            THEN /\ tmp' = tmp \cup {<<envCalls + 1, "in">>, <<envCalls + 1, "out">>}
                 /\ io' = [in |-> dumps(call.input_data), out |-> EmptyText]
                 /\ pc' = "env_run"
                 /\ UNCHANGED <<outcome, faults>>
            ELSE /\ tmp' = tmp \cup {<<envCalls + 1, "in">>}
                 /\ io' = NoIo
                 /\ outcome' = "error"
                 /\ pc' = "record"
                 /\ faults' = faults + 1
  /\ UNCHANGED <<config_vars, step_vars, fs, dirs, idx, current_dir,
                 current_classified, all_results, exit_code, call, child, ret,
                 local_vars, log>>

\* lines 51-66: the command is built and the child run to its end
EnvRun ==
  /\ pc = "env_run"
  /\ \E res \in ChildResults :
       /\ res # "exit0" => faults < MaxFaults
       /\ exit_code' = res
       /\ child' = ChildOf(res, full_command(get_activate_command(call.venv_path, os_name),
                                             call.command, InputFile, OutputFile))
       /\ faults' = IF res = "exit0" THEN faults ELSE faults + 1
       /\ fs' = IF res = "exit0"
                  THEN ModuleWrites(fs, join(output_dir, StagingName(file_type)),
                                    modules[step.module_name].config.output_path)
                  ELSE fs
       /\ tmp' = IF res = "exit0_removed" THEN tmp \ {OutputFile} ELSE tmp
       /\ io' = [io EXCEPT !.out = CASE res = "exit0" -> ScriptOutput(call.command[2], io.in)
                                     [] res = "exit0_invalid" -> Garbage
                                     [] OTHER -> EmptyText]
  /\ pc' = "env_finish"
  /\ log' = Append(log, Event("launch", file_type))
  /\ UNCHANGED <<config_vars, step_vars, dirs, idx, current_dir, current_classified,
                 all_results, outcome, envCalls, call, ret, local_vars>>

\* lines 68-84: the response is read, or the failure turned into an error
\* string; the finally removes both temporary files.  Lines 301-302: the
\* caller raises on an error string
EnvFinish ==
  /\ pc = "env_finish"
  /\ ret' = bridge_result(child, OutputFile \in tmp, io.out)
  /\ outcome' = IF ret'.error # PyNone THEN "error" ELSE "ok"
  /\ tmp' = tmp \ {InputFile, OutputFile}
  /\ exit_code' = None
  /\ pc' = "record"
  /\ log' = IF child.raised = "none" THEN Append(log, Event("read", file_type)) ELSE log
  /\ UNCHANGED <<config_vars, step_vars, fs, dirs, idx, current_dir,
                 current_classified, all_results, envCalls, call, io, child,
                 local_vars, faults>>

(***************************************************************************)
(* The specification.                                                      *)
(***************************************************************************)
Next ==
  \/ Run
  \/ Complete
  \/ LookupFails
  \/ SkipStep
  \/ RejectStep
  \/ EnterStep
  \/ BridgeType
  \/ BridgeDone
  \/ Stage
  \/ Dispatch
  \/ Validate
  \/ Construct
  \/ EnvCreate
  \/ EnvRun
  \/ EnvFinish
  \/ Record
  \/ ProcessDone
  \/ EndStep

Spec == Init /\ [][Next]_vars

(***************************************************************************)
(* run_in_environment called on its own.                                   *)
(***************************************************************************)
\* the commands a direct call runs
BridgeCommands == {<<"python", "blur.py">>, <<"python", "echo.py">>}

BlurVideo == CHOOSE st \in StepMenu : st.step_name = "blur_video"

\* line 36: the static method is called with any environment, command and
\* request, on either kind of host; the caller stands in a step that has
\* staged no file
InitBridge ==
  /\ modules = Registry
  /\ pipeline_steps = <<BlurVideo>>
  /\ stop_on_error = FALSE
  /\ default_overwrite = FALSE
  /\ input_path = <<"in">>
  /\ fs \in InputTrees
  /\ dirs = {<<"in">>} \cup {SubSeq(p, 1, Len(p) - 1) : p \in DOMAIN fs}
  /\ tmp = {}
  /\ pc = "env_create"
  /\ idx = 1
  /\ current_dir = <<"in">>
  /\ current_classified = classify_files(fs, <<"in">>, TRUE)
  /\ all_results = <<>>
  /\ output_dir = Registry["blur"].config.output_path
  /\ step_result = EmptyStepResult
  /\ pos = 1
  /\ file_type = "video"
  /\ outcome = "none"
  /\ envCalls = 0
  /\ exit_code = None
  /\ os_name \in OsNames
  /\ call \in [venv_path : EnvNames, command : BridgeCommands,
               input_data : PyValues(MaxDepth)]
  /\ io = NoIo
  /\ child = NoChild
  /\ ret = NoRet
  /\ handler = NoHandler
  /\ init_params = NoParams
  /\ validation = NoValidation
  /\ config_file = NoConfig
  /\ load_pos = 0
  /\ path_manager = PipelinePathManager
  /\ pm_call = NoPmCall
  /\ pm_ret = NoPmRet
  /\ faults = 0
  /\ log = <<>>

NextBridge ==
  \/ EnvCreate
  \/ EnvRun
  \/ EnvFinish

SpecBridge == InitBridge /\ [][NextBridge]_vars

(***************************************************************************)
(* The dispatch of a local module from its validation on.                  *)
(***************************************************************************)
FilterAll == CHOOSE st \in StepMenu : st.step_name = "filter_all"

\* lines 274-280: the dispatch of a step's first category has resolved a
\* class with any of the signatures and prepared any of the parameter sets
InitValidate ==
  /\ modules = Registry
  /\ pipeline_steps = <<FilterAll>>
  /\ stop_on_error = FALSE
  /\ default_overwrite = FALSE
  /\ input_path = <<"in">>
  /\ fs \in InputTrees
  /\ dirs = {<<"in">>} \cup {SubSeq(p, 1, Len(p) - 1) : p \in DOMAIN fs}
  /\ tmp = {}
  /\ pc = "validate"
  /\ idx = 1
  /\ current_dir = <<"in">>
  /\ current_classified = classify_files(fs, <<"in">>, TRUE)
  /\ all_results = <<>>
  /\ output_dir = Registry["filter"].config.output_path
  /\ step_result = EmptyStepResult
  /\ pos = 1
  /\ file_type = CatOrder[1]
  /\ outcome = "none"
  /\ envCalls = 0
  /\ exit_code = None
  /\ os_name = "posix"
  /\ call = NoCall
  /\ io = NoIo
  /\ child = NoChild
  /\ ret = NoRet
  /\ handler \in Signatures
  /\ init_params \in ParamSets
  /\ validation = NoValidation
  /\ config_file = NoConfig
  /\ load_pos = 0
  /\ path_manager = PipelinePathManager
  /\ pm_call = NoPmCall
  /\ pm_ret = NoPmRet
  /\ faults = 0
  /\ log = <<>>

NextValidate ==
  \/ Validate
  \/ Construct
  \/ Record

SpecValidate == InitValidate /\ [][NextValidate]_vars

(***************************************************************************)
(* DataProcessingPipeline.load_config and the registry.                    *)
(***************************************************************************)
\* the entries a section of the configuration file holds at most
MaxEntries == 2

\* the register_module calls made after the configuration is loaded
MaxRegistrations == 1

\* the entries of the "modules" object: "broken" lacks "type", "bare" has
\* neither "venv_path" nor "config"
ModuleEntries ==
  { [name |-> "blur",
     info |-> [type |-> "external", path |-> "blur.py", venv_path |-> "venv1",
               config |-> [output_path |-> <<"a">>]]],
    [name |-> "filter",
     info |-> [type |-> "local", path |-> "VideoDurationFilter",
               config |-> [output_path |-> <<"b">>]]],
    [name |-> "broken", info |-> [path |-> "x.py"]],
    [name |-> "bare", info |-> [type |-> "local", path |-> "BlurDetector"]] }

\* the entries of the "pipeline_steps" list: two lack a key add_step is
\* called with
StepEntries ==
  { [step_name |-> "blur_video", module_name |-> "blur", input_params |-> "p",
     bridge |-> [skip_types |-> <<"image">>, action |-> "copy"]],
    [step_name |-> "filter_all", module_name |-> "filter", input_params |-> "p",
     bridge |-> [skip_types |-> <<>>, action |-> "copy"]],
    [step_name |-> "ghost_step", module_name |-> "ghost", input_params |-> "p",
     bridge |-> [skip_types |-> <<>>, action |-> "copy"]],
    [step_name |-> "no_bridge", module_name |-> "blur", input_params |-> "p"],
    [module_name |-> "filter", input_params |-> "p",
     bridge |-> [skip_types |-> <<>>, action |-> "copy"]] }

\* the configuration files: a JSON object names no module twice
ConfigFiles ==
  [modules : {q \in UNION {[1..n -> ModuleEntries] : n \in 0..MaxEntries} :
                \A i, j \in 1..Len(q) : i # j => q[i].name # q[j].name},
   pipeline_steps : UNION {[1..n -> StepEntries] : n \in 0..MaxEntries}]

\* line 71: the entry holds "type" and "path"
ModuleEntryValid(info) == {"type", "path"} \subseteq DOMAIN info

\* lines 91-94: the keys _load_steps reads
StepEntryValid(e) ==
  {"step_name", "module_name", "input_params", "bridge"} \subseteq DOMAIN e

\* lines 78-83: the descriptor _load_modules registers
Descriptor(info) ==
  [type |-> info.type, path |-> info.path,
   venv_path |-> IF "venv_path" \in DOMAIN info THEN info.venv_path ELSE None,
   config |-> IF "config" \in DOMAIN info THEN info.config ELSE [output_path |-> NoPath]]

\* a registry that keeps the first descriptor registered under a name
register_module_once(mods, name, module_info) ==
  IF name \in DOMAIN mods THEN mods
  ELSE [n \in DOMAIN mods \cup {name} |-> IF n = name THEN module_info ELSE mods[n]]

\* line 105: self.modules[name] = module_info
register_module(mods, name, module_info) ==
  [n \in DOMAIN mods \cup {name} |-> IF n = name THEN module_info ELSE mods[n]]

\* lines 112-117: the step is appended
add_step(steps, e) ==
  Append(steps, [step_name |-> e.step_name, module_name |-> e.module_name,
                 bridge |-> e.bridge])

\* the record of a register_module call: the name, the descriptor, whether the
\* warning of line 103 was printed
Registration(name, module_info, by) ==
  [step |-> 0, kind |-> "register", type |-> name, info |-> module_info,
   warned |-> name \in DOMAIN modules, by |-> by]

\* lines 18-31 and 44-58: the pipeline is constructed on a configuration file
InitLoad ==
  /\ modules = <<>>
  /\ pipeline_steps = <<>>
  /\ stop_on_error \in BOOLEAN
  /\ default_overwrite = FALSE
  /\ input_path = <<"in">>
  /\ fs \in InputTrees
  /\ dirs = {<<"in">>} \cup {SubSeq(p, 1, Len(p) - 1) : p \in DOMAIN fs}
  /\ tmp = {}
  /\ pc = "load_modules"
  /\ idx = 0
  /\ current_dir = NoPath
  /\ current_classified = EmptyClassified
  /\ all_results = <<>>
  /\ output_dir = NoPath
  /\ step_result = EmptyStepResult
  /\ pos = 0
  /\ file_type = None
  /\ outcome = "none"
  /\ envCalls = 0
  /\ exit_code = None
  /\ os_name = "posix"
  /\ call = NoCall
  /\ io = NoIo
  /\ child = NoChild
  /\ ret = NoRet
  /\ handler = NoHandler
  /\ init_params = NoParams
  /\ validation = NoValidation
  /\ config_file \in ConfigFiles
  /\ load_pos = 1
  /\ path_manager = PipelinePathManager
  /\ pm_call = NoPmCall
  /\ pm_ret = NoPmRet
  /\ faults = 0
  /\ log = <<>>

run_vars == <<stop_on_error, default_overwrite, input_path, os_name, path_vars, fs, dirs, idx,
              current_dir, current_classified, all_results, step_vars, outcome,
              env_vars, faults>>

\* lines 69-84: one entry of the "modules" object; an incomplete one is
\* reported and passed over
LoadModule ==
  /\ pc = "load_modules"
  /\ load_pos <= Len(config_file.modules)
  /\ LET e == config_file.modules[load_pos]
     IN  IF ModuleEntryValid(e.info)
           THEN /\ modules' = register_module(modules, e.name, Descriptor(e.info))
                /\ log' = Append(log, Registration(e.name, Descriptor(e.info), "load"))
           ELSE UNCHANGED <<modules, log>>
  /\ load_pos' = load_pos + 1
  /\ UNCHANGED <<run_vars, pipeline_steps, config_file, pc>>

\* lines 58-59: _load_modules returns, _load_steps begins
LoadModulesDone ==
  /\ pc = "load_modules"
  /\ load_pos > Len(config_file.modules)
  /\ pc' = "load_steps"
  /\ load_pos' = 1
  /\ UNCHANGED <<run_vars, modules, pipeline_steps, config_file, log>>

\* lines 88-98: one entry of the "pipeline_steps" list.  On a missing key the
\* except clause prints and then calls traceback.print_ecx, which the
\* traceback module does not have: the AttributeError leaves _load_steps and
\* is caught by load_config (lines 64-65), which ends the loading
LoadStep ==
  /\ pc = "load_steps"
  /\ load_pos <= Len(config_file.pipeline_steps)
  /\ LET e == config_file.pipeline_steps[load_pos]
     IN  IF StepEntryValid(e)
           THEN /\ pipeline_steps' = add_step(pipeline_steps, e)
                /\ load_pos' = load_pos + 1
                /\ UNCHANGED pc
           ELSE /\ pc' = "idle"
                /\ UNCHANGED <<pipeline_steps, load_pos>>
  /\ UNCHANGED <<run_vars, modules, config_file, log>>

\* lines 61-62: _load_steps returns and with it load_config
LoadStepsDone ==
  /\ pc = "load_steps"
  /\ load_pos > Len(config_file.pipeline_steps)
  /\ pc' = "idle"
  /\ UNCHANGED <<run_vars, modules, pipeline_steps, config_file, load_pos, log>>

\* the descriptors register_module is called with once the pipeline stands
ApiDescriptors ==
  { [type |-> "external", path |-> "blur.py", venv_path |-> "conda1",
     config |-> [output_path |-> <<"b">>]],
    [type |-> "local", path |-> "BlurDetector", venv_path |-> None,
     config |-> [output_path |-> <<"a">>]] }

\* lines 100-105: register_module called by the pipeline's owner
RegisterModule ==
  /\ pc = "idle"
  /\ Len(SelectSeq(log, LAMBDA r : r.kind = "register" /\ r.by = "api")) < MaxRegistrations
  /\ \E name \in {"blur", "bare"}, module_info \in ApiDescriptors :
       /\ modules' = register_module(modules, name, module_info)
       /\ log' = Append(log, Registration(name, module_info, "api"))
  /\ UNCHANGED <<run_vars, pipeline_steps, config_file, load_pos, pc>>

NextLoad ==
  \/ LoadModule
  \/ LoadModulesDone
  \/ LoadStep
  \/ LoadStepsDone
  \/ RegisterModule

SpecLoad == InitLoad /\ [][NextLoad]_vars

(***************************************************************************)
(* The PathManager called on its own: classifications of a tree and one    *)
(* batch transfer into the directory "out".                                *)
(***************************************************************************)
\* lines 7-22: a PathManager of any extension lists and default policy
InitPaths ==
  /\ modules = Registry
  /\ pipeline_steps = <<>>
  /\ stop_on_error = FALSE
  /\ default_overwrite \in BOOLEAN
  /\ input_path = <<"in">>
  /\ fs \in PathTrees
  /\ dirs = {SubSeq(p, 1, Len(p) - 1) : p \in DOMAIN fs}
  /\ tmp = {}
  /\ pc = "path_manager"
  /\ idx = 0
  /\ current_dir = NoPath
  /\ current_classified = EmptyClassified
  /\ all_results = <<>>
  /\ output_dir = NoPath
  /\ step_result = EmptyStepResult
  /\ pos = 0
  /\ file_type = None
  /\ outcome = "none"
  /\ envCalls = 0
  /\ exit_code = None
  /\ os_name = "posix"
  /\ call = NoCall
  /\ io = NoIo
  /\ child = NoChild
  /\ ret = NoRet
  /\ handler = NoHandler
  /\ init_params = NoParams
  /\ validation = NoValidation
  /\ config_file = NoConfig
  /\ load_pos = 0
  /\ \E image_formats \in FormatChoices, video_formats \in FormatChoices :
       path_manager = PathManager_init(image_formats, video_formats)
  /\ pm_call = NoPmCall
  /\ pm_ret = NoPmRet
  /\ faults = 0
  /\ log = <<>>

paths_frame == <<modules, pipeline_steps, stop_on_error, default_overwrite, input_path,
                 os_name, load_vars, path_manager, step_vars, env_vars, idx, current_dir,
                 current_classified, all_results, outcome, log>>

\* classify_files, lines 117-129, on the tree as it stands
Classify ==
  /\ pc \in {"path_manager", "transferred"}
  /\ \E root_dir \in {<<"in">>, <<"out">>}, up \in BOOLEAN :
       /\ pm_call' = [NoPmCall EXCEPT !.op = "classify_files", !.dir = root_dir,
                                      !.before = fs]
       /\ pm_ret' = [NoPmRet EXCEPT !.classified =
                       PathManager_classify_files(path_manager, fs, root_dir, up)]
  /\ UNCHANGED <<paths_frame, fs, dirs, pc, faults>>

\* one batch transfer: `transfer` is batch_copy_files or batch_move_files
Transfer(op, source_files, overwrite, failAt) ==
  LET r == IF op = "batch_copy_files"
             THEN batch_copy_files(fs, source_files, <<"out">>,
                                   Overwrite(overwrite, default_overwrite), failAt)
             ELSE batch_move_files(fs, source_files, <<"out">>,
                                   Overwrite(overwrite, default_overwrite), failAt)
  IN  /\ fs' = r.fs
      /\ dirs' = makedirs(dirs, <<"out">>)
      /\ pm_call' = [op |-> op, dir |-> <<"out">>, source_files |-> source_files,
                     overwrite |-> overwrite, before |-> fs]
      /\ pm_ret' = [NoPmRet EXCEPT !.raised = ~r.ok,
                                   !.target_paths = IF r.ok
                                     THEN target_paths(source_files, <<"out">>)
                                     ELSE <<>>]
      /\ faults' = IF failAt = 0 THEN faults ELSE faults + 1
      /\ pc' = "transferred"

\* batch_copy_files, lines 68-87
BatchCopy ==
  /\ pc = "path_manager"
  /\ \E source_files \in SourceLists(fs), overwrite \in OverwriteArgs :
       \E failAt \in 0..(IF faults < MaxFaults THEN Len(source_files) ELSE 0) :
          Transfer("batch_copy_files", source_files, overwrite, failAt)
  /\ UNCHANGED paths_frame

\* batch_move_files, lines 89-105
BatchMove ==
  /\ pc = "path_manager"
  /\ \E source_files \in SourceLists(fs), overwrite \in OverwriteArgs :
       \E failAt \in 0..(IF faults < MaxFaults THEN Len(source_files) ELSE 0) :
          Transfer("batch_move_files", source_files, overwrite, failAt)
  /\ UNCHANGED paths_frame

NextPaths ==
  \/ Classify
  \/ BatchCopy
  \/ BatchMove

SpecPaths == InitPaths /\ [][NextPaths]_vars

(***************************************************************************)
(* The process loop of _process_step on a module of any kind.              *)
(***************************************************************************)
\* a registry with a module of every kind the dispatch tells apart: an
\* external script that exists and one that does not, a local class that is
\* known and one that is not, and a type that is neither
DispatchRegistry ==
  [n \in {"blur", "lost", "filter", "stray", "odd"} |->
     CASE n = "blur"   -> [type |-> "external", path |-> "blur.py", venv_path |-> "venv1",
                           config |-> [output_path |-> <<"a">>]]
       [] n = "lost"   -> [type |-> "external", path |-> "lost.py", venv_path |-> "venv1",
                           config |-> [output_path |-> <<"a">>]]
       [] n = "filter" -> [type |-> "local", path |-> "VideoDurationFilter", venv_path |-> None,
                           config |-> [output_path |-> <<"b">>]]
       [] n = "stray"  -> [type |-> "local", path |-> "Missing", venv_path |-> None,
                           config |-> [output_path |-> <<"b">>]]
       [] n = "odd"    -> [type |-> "remote", path |-> "blur.py", venv_path |-> None,
                           config |-> [output_path |-> <<"a">>]]]

\* one step per module, with no category to bridge
DispatchSteps ==
  {[step_name |-> n, module_name |-> n, bridge |-> [skip_types |-> <<>>, action |-> "copy"]] :
     n \in DOMAIN DispatchRegistry}

\* lines 119-134, 147-152 and 174-226: run() has classified the input,
\* entered its one step and found nothing to bridge
InitDispatch ==
  /\ modules = DispatchRegistry
  /\ \E st \in DispatchSteps :
       /\ pipeline_steps = <<st>>
       /\ output_dir = DispatchRegistry[st.module_name].config.output_path
  /\ stop_on_error \in BOOLEAN
  /\ default_overwrite \in BOOLEAN
  /\ input_path = <<"in">>
  /\ fs \in InputTrees
  /\ dirs = {<<"in">>} \cup {SubSeq(p, 1, Len(p) - 1) : p \in DOMAIN fs}
  /\ tmp = {}
  /\ pc = "process"
  /\ idx = 1
  /\ current_dir = <<"in">>
  /\ \E up \in BOOLEAN : current_classified = classify_files(fs, <<"in">>, up)
  /\ all_results = <<>>
  /\ step_result = EmptyStepResult
  /\ pos = 1
  /\ file_type = None
  /\ outcome = "none"
  /\ envCalls = 0
  /\ exit_code = None
  /\ os_name = "posix"
  /\ call = NoCall
  /\ io = NoIo
  /\ child = NoChild
  /\ ret = NoRet
  /\ handler = NoHandler
  /\ init_params = NoParams
  /\ validation = NoValidation
  /\ config_file = NoConfig
  /\ load_pos = 0
  /\ path_manager = PipelinePathManager
  /\ pm_call = NoPmCall
  /\ pm_ret = NoPmRet
  /\ faults = 0
  /\ log = <<[step |-> 0, kind |-> "classify", type |-> None],
             [step |-> 1, kind |-> "enter", type |-> None]>>

NextDispatch ==
  \/ Stage
  \/ Dispatch
  \/ Validate
  \/ Construct
  \/ EnvCreate
  \/ EnvRun
  \/ EnvFinish
  \/ Record
  \/ ProcessDone

SpecDispatch == InitDispatch /\ [][NextDispatch]_vars

(***************************************************************************)
(* run() on step lists that hold steps with an invalid bridge action.      *)
(***************************************************************************)
\* steps of local modules: two with the bridge action "link", of a module
\* with and of a module without an output location, and a regular one
RejectMenu ==
  { [step_name |-> "filter_link", module_name |-> "filter",
     bridge |-> [skip_types |-> <<"video">>, action |-> "link"]],
    [step_name |-> "plain_link", module_name |-> "plain",
     bridge |-> [skip_types |-> <<"image">>, action |-> "link"]],
    [step_name |-> "filter_rest", module_name |-> "filter",
     bridge |-> [skip_types |-> <<"image">>, action |-> "copy"]] }

RejectLists == UNION {[1..n -> RejectMenu] : n \in 0..MaxSteps}

\* lines 18-37 and 107-117: the pipeline of RejectLists is constructed
InitReject ==
  /\ modules = Registry
  /\ pipeline_steps \in RejectLists
  /\ stop_on_error \in BOOLEAN
  /\ default_overwrite \in BOOLEAN
  /\ input_path = <<"in">>
  /\ fs \in InputTrees
  /\ dirs = {<<"in">>} \cup {SubSeq(p, 1, Len(p) - 1) : p \in DOMAIN fs}
  /\ tmp = {}
  /\ pc = "idle"
  /\ idx = 0
  /\ current_dir = NoPath
  /\ current_classified = EmptyClassified
  /\ all_results = <<>>
  /\ output_dir = NoPath
  /\ step_result = EmptyStepResult
  /\ pos = 0
  /\ file_type = None
  /\ outcome = "none"
  /\ envCalls = 0
  /\ exit_code = None
  /\ os_name = "posix"
  /\ call = NoCall
  /\ io = NoIo
  /\ child = NoChild
  /\ ret = NoRet
  /\ handler = NoHandler
  /\ init_params = NoParams
  /\ validation = NoValidation
  /\ config_file = NoConfig
  /\ load_pos = 0
  /\ path_manager = PipelinePathManager
  /\ pm_call = NoPmCall
  /\ pm_ret = NoPmRet
  /\ faults = 0
  /\ log = <<>>

NextReject ==
  \/ Run
  \/ Complete
  \/ SkipStep
  \/ RejectStep
  \/ EnterStep
  \/ BridgeType
  \/ BridgeDone
  \/ Stage
  \/ Dispatch
  \/ Validate
  \/ Construct
  \/ Record
  \/ ProcessDone
  \/ EndStep

SpecReject == InitReject /\ [][NextReject]_vars

TypeOK ==
  /\ pc \in {"load_modules", "load_steps", "idle", "returned_empty", "loop", "bridge", "process", "dispatch",
             "validate", "construct", "env_create", "env_run", "env_finish", "record", "endstep",
             "completed", "returned", "raised", "path_manager", "transferred"}
  /\ faults \in 0..MaxFaults
  /\ idx \in 0..(MaxSteps + 1)

(***************************************************************************)
(* Vocabulary of the properties.                                           *)
(***************************************************************************)
Registered(k) == pipeline_steps[k].module_name \in DOMAIN modules

OutputOf(k) == modules[pipeline_steps[k].module_name].config.output_path

\* step k has a registered module with a configured output location
Runnable(k) == Registered(k) /\ OutputOf(k) # NoPath

Reports == SelectSeq(log, LAMBDA e : e.kind = "report")

HasErrors(report) == report.result.errors # <<>>

\* the files of category c below directory d
FilesOfType(f, d, c) == {p \in DOMAIN f : IsUnder(p, d) /\ get_file_type(p) = c}

Entries(q, t) == SelectSeq(q, LAMBDA e : e.type = t)

StageErrors(q, t, stage) == SelectSeq(q, LAMBDA e : e.type = t /\ e.stage = stage)

RECURSIVE SumCounts(_, _)
SumCounts(types, classified) ==
  IF types = <<>> THEN 0
  ELSE Len(classified[Head(types)]) + SumCounts(Tail(types), classified)

\* the two-step pipeline of the end-to-end example on 2 images and 1 video
ExampleRun ==
  /\ Len(pipeline_steps) = 2
  /\ pipeline_steps[1].step_name = "blur_video"
  /\ pipeline_steps[2].step_name = "filter_all"
  /\ input_path = <<"in">>
  /\ <<"in", "v.mp4">> \in DOMAIN fs
  /\ faults = 0

(***************************************************************************)
(* C1.  With stop_on_error set, a step report holding an error ends the    *)
(* run: it is the last report and nothing is done after it.                *)
(***************************************************************************)
C1_HaltsOnError ==
  (stop_on_error /\ \E i \in 1..Len(all_results) : HasErrors(all_results[i]))
    => /\ \A i \in 1..Len(all_results) :
            HasErrors(all_results[i]) => i = Len(all_results)
       /\ log[Len(log)].kind = "report"

(***************************************************************************)
(* C2.  With stop_on_error off, no error of a step keeps a later step that *)
(* has an output location from running: a run that returned from the       *)
(* handler of a step's exception has no such step left.                    *)
(***************************************************************************)
C2_ErrorNeverHalts ==
  (~stop_on_error /\ pc = "returned")
    => \A k \in (idx + 1)..Len(pipeline_steps) : ~Runnable(k)

(***************************************************************************)
(* C3.  Steps run one after another in declared order: the step indices of *)
(* the history never decrease, a step is entered only after every step     *)
(* entered before it has reported, and the reports are those of strictly   *)
(* increasing step indices, in that order.                                 *)
(***************************************************************************)
C3_DeclaredOrder ==
  /\ \A i, j \in 1..Len(log) : i < j => log[i].step <= log[j].step
  /\ \A i, j \in 1..Len(log) :
       (i < j /\ log[i].kind = "enter" /\ log[j].kind = "enter")
         => \E m \in (i + 1)..(j - 1) :
              log[m].kind = "report" /\ log[m].step = log[i].step
  /\ Len(Reports) = Len(all_results)
  /\ \A i, j \in 1..Len(Reports) : i < j => Reports[i].step < Reports[j].step
  /\ \A i \in 1..Len(Reports) :
       all_results[i].step_name = pipeline_steps[Reports[i].step].step_name

C3_Witness ==
  /\ pc = "completed"
  /\ Len(all_results) = 2
  /\ all_results[1].step_name # all_results[2].step_name

(***************************************************************************)
(* C4.  Whenever run() is about to take a step, the classified set it      *)
(* holds is the classification of the current input directory as it is on  *)
(* disk now, and that directory is the run's input directory before any    *)
(* step has run and the output directory of the last step run after.       *)
(***************************************************************************)
C4_FreshClassification ==
  pc = "loop" =>
    /\ current_dir = IF Reports = <<>> THEN input_path
                     ELSE OutputOf(Reports[Len(Reports)].step)
    /\ \A c \in Cat :
         /\ Range(current_classified[c]) = FilesOfType(fs, current_dir, c)
         /\ Len(current_classified[c]) = Cardinality(FilesOfType(fs, current_dir, c))

C4_Witness ==
  /\ pc = "loop"
  /\ idx = 2
  /\ Len(all_results) = 1
  /\ current_dir # input_path
  /\ \E c \in Cat : current_classified[c] # <<>>
  /\ \E c \in Cat : FilesOfType(fs, input_path, c) # {} /\ current_classified[c] = <<>>

(***************************************************************************)
(* C5.  In the example run, the classification step 2 receives holds       *)
(* exactly three files: the two bridged images and the processed video.    *)
(***************************************************************************)
C5_ExampleRescan ==
  (ExampleRun /\ pc = "loop" /\ idx = 2)
    => UNION {Range(current_classified[c]) : c \in Cat}
         = {<<"a", "p.jpg">>, <<"a", "q.JPG">>, <<"a", "v.mp4">>}

\* the bridged entry of skip category t: its input count, the step's action
BridgedEntry(t) ==
  [type |-> t, count |-> Len(current_classified[t]), action |-> step.bridge.action]

\* bridged names only skip categories with input files, processed_types only
\* other categories with input files, processed_count is the sum of the
\* input counts of the processed categories, and the example's figures
C6_CountsRest ==
  /\ \A i \in 1..Len(step_result.bridged) :
       /\ step_result.bridged[i].type \in Range(skip_types)
       /\ current_classified[step_result.bridged[i].type] # <<>>
  /\ \A i \in 1..Len(step_result.processed_types) :
       /\ step_result.processed_types[i] \notin Range(skip_types)
       /\ current_classified[step_result.processed_types[i]] # <<>>
  /\ step_result.processed_count
       = SumCounts(step_result.processed_types, current_classified)
  /\ (ExampleRun /\ idx = 1) =>
       /\ step_result.bridged = <<[type |-> "image", count |-> 2, action |-> "copy"]>>
       /\ step_result.processed_count = 1

Times(q, t) == Len(SelectSeq(q, LAMBDA x : x = t))

C7_ErrorIsolation ==
  pc = "endstep" =>
    \A c \in Cat :
      LET n         == IF current_classified[c] = <<>> THEN 0 ELSE 1
          bridged   == Len(Entries(step_result.bridged, c))
          bridgeErr == Len(StageErrors(step_result.errors, c, "bridge"))
          processed == Times(step_result.processed_types, c)
          procErr   == Len(StageErrors(step_result.errors, c, "process"))
      IN  IF c \in Range(skip_types)
            THEN bridged + bridgeErr = n /\ processed + procErr = 0
            ELSE processed + procErr = n /\ bridged + bridgeErr = 0

C7_Witness ==
  /\ pc = "endstep"
  /\ \E t \in Cat : StageErrors(step_result.errors, t, "bridge") # <<>>
  /\ step_result.processed_types # <<>>

(***************************************************************************)
(* C8.  No exception leaves run().                                         *)
(***************************************************************************)
C8_RunNeverRaises == pc # "raised"

(***************************************************************************)
(* C9.  A step whose module has no output location is passed over: the     *)
(* loop moves to the next step and the files, the directories, the report, *)
(* the current input directory, the classified set and the history stay    *)
(* as they are.                                                            *)
(***************************************************************************)
C9_SkippedStepChangesNothing ==
  [][(pc = "loop" /\ idx <= Len(pipeline_steps) /\ Registered(idx)
        /\ OutputOf(idx) = NoPath)
       => /\ idx' = idx + 1
          /\ pc' = "loop"
          /\ UNCHANGED <<fs, dirs, tmp, all_results, current_dir,
                         current_classified, log>>]_vars

C9_Witness ==
  /\ idx = 2
  /\ Registered(1) /\ OutputOf(1) = NoPath
  /\ pc = "bridge"
  /\ all_results = <<>>
  /\ current_dir = input_path

(***************************************************************************)
(* C10.  Once run_in_environment has ended, none of the temporary files it *)
(* created is left on disk.                                                *)
(***************************************************************************)
C10_TempFilesRemoved == pc \notin {"env_run", "env_finish"} => tmp = {}

(***************************************************************************)
(* C11 (under SpecBridge).                                                 *)
(***************************************************************************)
\* the call has returned
Returned == pc = "record" /\ child.raised # None

ReadEvents == SelectSeq(log, LAMBDA e : e.kind = "read")

\* C11: run_in_environment returns only after the child has ended.  When the
\* child exited 0 and the output file holds a JSON text, the pair returned is
\* (the value of that text, no error).  When the child exited non-zero, the
\* pair is (no response, an error) whose error carries the child's exit code,
\* what the child wrote to stderr and the full command line that was run, and
\* the output file was never opened.
C11_OutcomeByExitCode ==
  /\ ret # NoRet => child.raised # None
  /\ pc \in {"env_create", "env_run", "env_finish"} => ret = NoRet
  /\ (Returned /\ child.raised = "none" /\ IsJson(io.out)) =>
        /\ ret.response = loads(io.out)
        /\ ret.error = PyNone
  /\ (Returned /\ child.raised = "CalledProcessError") =>
        /\ ret.response = PyNone
        /\ ret.error # PyNone
        /\ ret.error.returncode = child.returncode
        /\ ret.error.stderr = child.stderr
        /\ ret.error.command = child.args
        /\ child.args = full_command(get_activate_command(call.venv_path, os_name),
                                     call.command, InputFile, OutputFile)
        /\ ReadEvents = <<>>

\* a call through a conda environment whose child exited non-zero has returned
C11_Witness ==
  /\ Returned
  /\ child.raised = "CalledProcessError"
  /\ call.venv_path = "conda1"
  /\ ret.error.kind = "command_failed"

(***************************************************************************)
(* C12 (under Spec).                                                       *)
(***************************************************************************)
\* the child exited 0 and left no JSON text: the output file is missing,
\* empty or holds something else
Malformed == pc = "record" /\ child.raised = "none" /\ ~IsJson(io.out)

\* C12: when the child exited 0 but the output file is missing, empty or no
\* valid JSON, run_in_environment returns no response and an error whose kind
\* differs from the kind reported for a non-zero exit, and the calling step
\* then records a process error for the category in hand and no module result.
C12_MalformedResponse ==
  [][Malformed =>
       /\ ret.response = PyNone
       /\ ret.error # PyNone
       /\ ret.error.kind # CommandFailed(1, "", <<>>).kind
       /\ step_result'.errors =
            Append(step_result.errors, [type |-> file_type, stage |-> "process"])
       /\ step_result'.module_details = step_result.module_details
       /\ step_result'.processed_types = step_result.processed_types
       /\ step_result'.processed_count = step_result.processed_count]_vars

\* the child of a step's dispatch exited 0 and left text that is no JSON
C12_Witness ==
  /\ Malformed
  /\ io.out = Garbage
  /\ OutputFile \notin tmp
  /\ outcome = "error"

(***************************************************************************)
(* C13 (under SpecBridge).                                                 *)
(***************************************************************************)
\* the shell ran the command line
ChildRan == child.raised \in {"none", "CalledProcessError"}

\* C13: a call that names an environment whose path does not exist never runs
\* the target executable and returns an error; the command line is run without
\* an activation prefix only when the call names no environment.
C13_MissingEnvironmentFails ==
  /\ (call.venv_path # None /\ call.venv_path \notin ExistingEnvs) =>
        /\ ~ChildRan
        /\ Returned => ret.error # PyNone
  /\ (ChildRan /\ child.args = call.command \o <<InputFile, OutputFile>>) =>
        call.venv_path = None

(***************************************************************************)
(* C14 (under SpecBridge).                                                 *)
(***************************************************************************)
\* the module that copies its input file to its output file has run and
\* exited 0, and the call has returned
Echoed ==
  /\ Returned
  /\ child.raised = "none"
  /\ call.command = <<"python", "echo.py">>
  /\ io.out = io.in

\* C14: for every serializable request value, a call of the copy-through
\* module returns a response equal to the request, and no error.
C14_RoundTrip ==
  Echoed => ret.response = call.input_data /\ ret.error = PyNone

\* C14, amended: the same for every request value made of None, booleans,
\* integers, strings, lists and dicts whose keys are strings.
C14_RoundTripOfJsonValues ==
  (Echoed /\ JsonNative(call.input_data)) =>
     ret.response = call.input_data /\ ret.error = PyNone

\* a dict with a string key and the value None has made the round trip
C14_Witness ==
  /\ Echoed
  /\ call.input_data = PyDict(<<Item(PyStr("a"), PyNone)>>)
  /\ ret.response = call.input_data

(***************************************************************************)
(* C15 (under Spec).                                                       *)
(***************************************************************************)
\* the launches of a module for category t in the step at position k
Launches(k, t) == SelectSeq(log, LAMBDA e : e.kind = "launch" /\ e.step = k /\ e.type = t)

\* C15: in every executed step the module is launched at most once for each
\* category, whether the launch succeeds or fails; a category whose launch
\* failed has exactly one process error in the step's result, and no result
\* ever holds two process errors of one category.
C15_NoRetry ==
  \A t \in Cat :
    /\ \A k \in 1..Len(pipeline_steps) : Len(Launches(k, t)) <= 1
    /\ \A i \in 1..Len(all_results) :
         Len(StageErrors(all_results[i].result.errors, t, "process")) <= 1
    /\ pc \in {"process", "endstep"} =>
         /\ Len(StageErrors(step_result.errors, t, "process")) <= 1
         /\ (Len(Launches(idx, t)) = 1 /\ t \notin step_result.module_details) =>
               Len(StageErrors(step_result.errors, t, "process")) = 1

\* an external module was launched for a category, failed, and the step ended
\* with one error for it
C15_Witness ==
  /\ pc = "endstep"
  /\ modules[step.module_name].type = "external"
  /\ \E t \in Cat :
       /\ Len(Launches(idx, t)) = 1
       /\ t \notin step_result.module_details
       /\ Len(StageErrors(step_result.errors, t, "process")) = 1

(***************************************************************************)
(* C16 (under SpecValidate).                                               *)
(***************************************************************************)
\* _validate_init_params has been called on the handler and parameters in hand
Validated == validation.raised # None

\* the handler's parameters without a default, and those of them not supplied
RequiredNames == {handler[i].name : i \in {k \in 1..Len(handler) : ~handler[k].has_default}}
AbsentNames   == RequiredNames \ DOMAIN init_params

\* the supplied names the handler does not declare
UnknownNames == DOMAIN init_params \ {handler[i].name : i \in 1..Len(handler)}

\* a supplied parameter has an annotation
SomeTypedSupplied ==
  \E i \in 1..Len(handler) :
    handler[i].name \in DOMAIN init_params /\ handler[i].annotation.kind # "empty"

\* C16: validation fails if and only if some parameter without a default is
\* absent (for a handler requiring a and b, the parameters {a} fail, and
\* {a, b, c} do not); an unknown parameter alone never makes it fail.
C16_FailsIffRequiredAbsent ==
  Validated => (validation.raised # "none" <=> AbsentNames # {})

\* C16, amended: validation fails with the missing-parameter error if and only
\* if some parameter without a default is absent, and the error then names
\* exactly the absent ones and lists the required set; when none is absent it
\* fails only on the type validation of a supplied annotated parameter, so an
\* unknown parameter alone never makes it fail and is only reported as extra.
C16_RequiredAndExtra ==
  Validated =>
    /\ validation.raised = "ValueError" <=> AbsentNames # {}
    /\ validation.raised = "ValueError" =>
         /\ Range(validation.missing) = AbsentNames
         /\ Range(validation.required) = RequiredNames
    /\ (validation.raised # "none" /\ AbsentNames = {}) => SomeTypedSupplied
    /\ (AbsentNames = {} /\ ~SomeTypedSupplied) =>
         /\ validation.raised = "none"
         /\ validation.extra = UnknownNames

\* a handler requiring a and b was given a, b and c: validation passed and
\* reported c as extra
C16_Witness ==
  /\ Validated
  /\ RequiredNames = {"a", "b"}
  /\ DOMAIN init_params = {"a", "b", "c"}
  /\ validation.raised = "none"
  /\ validation.extra = {"c"}

(***************************************************************************)
(* C17 (under SpecValidate).                                               *)
(***************************************************************************)
\* the value supplied for the handler's i-th parameter fits its annotation:
\* an instance of the declared class, or of a member of the declared union
Fits(i) ==
  \E k \in 1..Len(handler[i].annotation.types) :
    IsInstance(init_params[handler[i].name], handler[i].annotation.types[k])

TypedSupplied ==
  {i \in 1..Len(handler) :
     handler[i].name \in DOMAIN init_params /\ handler[i].annotation.kind # "empty"}

\* C17: with no required parameter absent, validation succeeds when every
\* supplied annotated parameter holds an instance of its declared type or of a
\* member of its declared optional/union, and otherwise fails with a type error
\* stating the expected type, the actual type and the value of a parameter that
\* does not fit; a parameter without annotation is never rejected for its type.
C17_TypeValidation ==
  (Validated /\ AbsentNames = {}) =>
    /\ (\A i \in TypedSupplied : Fits(i)) => validation.raised = "none"
    /\ (\E i \in TypedSupplied : ~Fits(i)) =>
         /\ validation.raised = "TypeError"
         /\ \E i \in TypedSupplied :
              /\ ~Fits(i)
              /\ validation.param = handler[i].name
              /\ validation.expected = handler[i].annotation.types
              /\ validation.actual = TypeName(init_params[handler[i].name])
              /\ validation.value = init_params[handler[i].name]

(***************************************************************************)
(* C18 (under SpecValidate).                                               *)
(***************************************************************************)
ValidationFailed == validation.raised \notin {None, "none"}

\* C18: the handler is constructed and its process() called only after the
\* validation of its parameters has succeeded: the construction is reached
\* from a validation that raised nothing and from nowhere else, and nothing is
\* launched outside it.  When the validation fails, the handler is never
\* constructed, process() is never called, and the step records a process
\* error for the category in hand and no module result.
C18_ValidationPrecedesConstruction ==
  [][/\ pc' = "construct" => pc = "validate" /\ validation'.raised = "none"
     /\ pc = "construct" => validation.raised = "none"
     /\ Len(Launches(idx, file_type))' > Len(Launches(idx, file_type)) => pc = "construct"
     /\ (pc = "record" /\ ValidationFailed) =>
          /\ Launches(idx, file_type) = <<>>
          /\ step_result'.errors =
               Append(step_result.errors, [type |-> file_type, stage |-> "process"])
          /\ step_result'.module_details = step_result.module_details
          /\ step_result'.processed_count = step_result.processed_count]_vars

\* a validation has failed for a missing parameter and the dispatch has ended
\* in an error without any launch
C18_Witness ==
  /\ pc = "record"
  /\ validation.raised = "ValueError"
  /\ outcome = "error"
  /\ Launches(idx, file_type) = <<>>

(***************************************************************************)
(* C19 (under SpecLoad).                                                   *)
(***************************************************************************)
\* the register_module calls so far, in order
Registrations == SelectSeq(log, LAMBDA r : r.kind = "register")

RegistrationsOf(name) == SelectSeq(Registrations, LAMBDA r : r.type = name)

\* the module names configurations and steps use
ModuleNames == {e.name : e \in ModuleEntries} \cup {e.module_name : e \in StepEntries}

ValidSteps == SelectSeq(config_file.pipeline_steps, StepEntryValid)

\* C20: once the configuration is loaded, every module entry that holds type
\* and path is registered and no other entry is, and the steps of the pipeline
\* are the complete step entries, those after an incomplete one included, in
\* the configured order.
C20_EveryValidEntryLoaded ==
  (pc = "idle" /\ Len(Registrations) = Len(SelectSeq(Registrations, LAMBDA r : r.by = "load"))) =>
    /\ \A i \in 1..Len(config_file.modules) :
         LET e == config_file.modules[i]
         IN  IF ModuleEntryValid(e.info)
               THEN e.name \in DOMAIN modules /\ modules[e.name] = Descriptor(e.info)
               ELSE e.name \notin DOMAIN modules
    /\ Len(pipeline_steps) = Len(ValidSteps)
    /\ \A i \in 1..Len(ValidSteps) :
         /\ pipeline_steps[i].step_name = ValidSteps[i].step_name
         /\ pipeline_steps[i].module_name = ValidSteps[i].module_name
         /\ pipeline_steps[i].bridge = ValidSteps[i].bridge

(***************************************************************************)
(* C21..C30: the PathManager, and the run as a whole.                      *)
(***************************************************************************)
\* the last PathManager call was a classification
Classified == pm_call.op = "classify_files"

\* the full recursive listing of the classified directory
Listed == {q \in DOMAIN pm_call.before : IsUnder(q, pm_call.dir)}

\* the places of the three lists that hold the path q
PlacesOf(q) ==
  {pl \in UNION {{<<c, i>> : i \in 1..Len(pm_ret.classified[c])} : c \in Cat} :
     pm_ret.classified[pl[1]][pl[2]] = q}

\* the extension lists of the manager share an extension
SharedExtension ==
  path_manager.supported_image_formats \cap path_manager.supported_video_formats # {}

\* C21: whatever the tree and the extension lists of the manager, lists that
\* share an extension included, a classification puts every file of the
\* recursive listing at exactly one place of exactly one of the lists image,
\* video and other, and the lists hold nothing but files of the listing.
C21_ClassificationIsPartition ==
  Classified =>
    /\ DOMAIN pm_ret.classified = Cat
    /\ \A q \in Listed : Cardinality(PlacesOf(q)) = 1
    /\ \A c \in Cat : \A i \in 1..Len(pm_ret.classified[c]) :
         pm_ret.classified[c][i] \in Listed

\* a file whose extension is in both lists has been classified, as an image
C21_Witness ==
  /\ Classified
  /\ SharedExtension
  /\ \E i \in 1..Len(pm_ret.classified["image"]) :
       /\ pm_ret.classified["image"][i] = <<"in", "v.mp4">>
       /\ ".mp4" \in path_manager.supported_video_formats
  /\ Len(pm_ret.classified["other"]) = 0

\* p comes before q in the lexicographic order of paths: the names of the
\* model differ in their first character, so the first differing component
\* decides
RECURSIVE PathLess(_, _)
PathLess(p, q) ==
  IF p = <<>> THEN q # <<>>
  ELSE IF q = <<>> THEN FALSE
  ELSE IF Head(p) = Head(q) THEN PathLess(Tail(p), Tail(q))
  ELSE NameRank(Head(p)) < NameRank(Head(q))

\* C22: a classification returns, within each category, the files in
\* lexicographic order by path, whatever order the walk of the directory
\* yields them in; the result is thereby the same on every call for a tree
\* that has not changed.
C22_ListsSortedByPath ==
  Classified =>
    \A c \in Cat : \A i, j \in 1..Len(pm_ret.classified[c]) :
      i < j => PathLess(pm_ret.classified[c][i], pm_ret.classified[c][j])

\* the last PathManager call was a batch transfer, and it returned
Transferred ==
  /\ pm_call.op \in {"batch_copy_files", "batch_move_files"}
  /\ ~pm_ret.raised

\* the files of the tree f that lie in the destination of the transfer
InDestination(f) == {q \in DOMAIN f : IsUnder(q, pm_call.dir)}

\* the basenames of the files the transfer was given
Basenames == {basename(pm_call.source_files[i]) : i \in 1..Len(pm_call.source_files)}

DistinctBasenames == Cardinality(Basenames) = Len(pm_call.source_files)

\* the policy the transfer worked under
Overwriting ==
  \/ pm_call.overwrite = "True"
  \/ pm_call.overwrite = None /\ default_overwrite

\* C23: a batch transfer of N files with pairwise distinct basenames into an
\* empty (or absent) directory that returns leaves exactly N files in the
\* directory, each holding the content of its source; after a move none of
\* the N files is at its original path, after a copy all N are, unchanged.
C23_FlatteningTransfer ==
  (Transferred /\ DistinctBasenames /\ InDestination(pm_call.before) = {}) =>
    LET src == pm_call.source_files
    IN  /\ Cardinality(InDestination(fs)) = Len(src)
        /\ \A i \in 1..Len(src) :
             /\ join(pm_call.dir, basename(src[i])) \in DOMAIN fs
             /\ fs[join(pm_call.dir, basename(src[i]))] = pm_call.before[src[i]]
             /\ pm_call.op = "batch_move_files" => src[i] \notin DOMAIN fs
             /\ pm_call.op = "batch_copy_files" =>
                  src[i] \in DOMAIN fs /\ fs[src[i]] = pm_call.before[src[i]]

\* two files of different names have been moved into an absent directory
C23_Witness ==
  /\ Transferred
  /\ pm_call.op = "batch_move_files"
  /\ pm_call.source_files = << <<"in", "sub", "p.jpg">>, <<"in", "v.mp4">> >>
  /\ InDestination(pm_call.before) = {}
  /\ InDestination(fs) = {<<"out", "p.jpg">>, <<"out", "v.mp4">>}

\* the last PathManager call was a batch transfer, returned or not
TransferCalled == pm_call.op \in {"batch_copy_files", "batch_move_files"}

\* the target path of the i-th file of the transfer
TargetOf(i) == join(pm_call.dir, basename(pm_call.source_files[i]))

\* the i-th file is the last one of its basename in the list
LastOfName(i) ==
  \A j \in 1..Len(pm_call.source_files) : TargetOf(j) = TargetOf(i) => j <= i

\* C24: under the policy overwrite = false (given, or taken from the default
\* when the argument is None) a batch transfer, whether it returns or raises,
\* leaves every file that was in the destination before it there with the
\* content it had; under overwrite = true a transfer that returns leaves
\* each destination file that has the name of a source with the content of
\* that source (of the last one, when several sources carry the name).
C24_OverwritePolicy ==
  /\ (TransferCalled /\ ~Overwriting) =>
       \A q \in InDestination(pm_call.before) :
         q \in DOMAIN fs /\ fs[q] = pm_call.before[q]
  /\ (Transferred /\ Overwriting) =>
       \A i \in 1..Len(pm_call.source_files) :
         (TargetOf(i) \in DOMAIN pm_call.before /\ LastOfName(i)) =>
           /\ TargetOf(i) \in DOMAIN fs
           /\ fs[TargetOf(i)] = pm_call.before[pm_call.source_files[i]]

\* a file of the name of a file in the destination has been transferred
\* under overwrite = false, and the destination file has kept its content
C24_Witness ==
  /\ Transferred
  /\ ~Overwriting
  /\ pm_call.source_files = << <<"in", "p.jpg">> >>
  /\ <<"out", "p.jpg">> \in DOMAIN pm_call.before
  /\ fs[<<"out", "p.jpg">>] = "d4"

\* the i-th file is the first one of its basename in the list
FirstOfName(i) ==
  \A j \in 1..Len(pm_call.source_files) : TargetOf(j) = TargetOf(i) => i <= j

\* the i-th file shares its basename with another file of the list
Collides(i) ==
  \E j \in 1..Len(pm_call.source_files) : j # i /\ TargetOf(j) = TargetOf(i)

\* the source whose content the collision policy leaves under the name of
\* the i-th file: the first of that name, or the last when overwriting
Prevails(i) == IF Overwriting THEN LastOfName(i) ELSE FirstOfName(i)

\* C25 as stated: when two files of one batch share a basename, the
\* destination ends with one file of that name, holding the content of the
\* first such source under overwrite = false and of the last under
\* overwrite = true, and the destination holds as many files as the batch
\* has distinct basenames.
C25_Collision ==
  (Transferred /\ ~DistinctBasenames) =>
    /\ \A i \in 1..Len(pm_call.source_files) :
         (Collides(i) /\ Prevails(i)) =>
           /\ TargetOf(i) \in DOMAIN fs
           /\ fs[TargetOf(i)] = pm_call.before[pm_call.source_files[i]]
    /\ Cardinality(InDestination(fs)) = Cardinality(Basenames)

\* C25, amended: the same for a batch transfer that returns and whose
\* destination held no file of the colliding name beforehand; the count
\* holds when the destination held no file at all beforehand.
C25_CollisionIntoFreeName ==
  (Transferred /\ ~DistinctBasenames) =>
    /\ \A i \in 1..Len(pm_call.source_files) :
         (Collides(i) /\ Prevails(i) /\ TargetOf(i) \notin DOMAIN pm_call.before) =>
           /\ TargetOf(i) \in DOMAIN fs
           /\ fs[TargetOf(i)] = pm_call.before[pm_call.source_files[i]]
    /\ InDestination(pm_call.before) = {} =>
         Cardinality(InDestination(fs)) = Cardinality(Basenames)

\* two files named p.jpg have been moved, overwriting, into an absent
\* directory: the one file there holds the content of the second
C25_Witness ==
  /\ Transferred
  /\ Overwriting
  /\ pm_call.op = "batch_move_files"
  /\ pm_call.source_files = << <<"in", "p.jpg">>, <<"in", "sub", "p.jpg">> >>
  /\ InDestination(pm_call.before) = {}
  /\ InDestination(fs) = {<<"out", "p.jpg">>}
  /\ fs[<<"out", "p.jpg">>] = "d2"

\* the i-th file of the transfer has left its original path
Gone(i) ==
  /\ pm_call.source_files[i] \in DOMAIN pm_call.before
  /\ pm_call.source_files[i] \notin DOMAIN fs

\* C26: when batch_move_files raises because a file could not be moved, the
\* caller is told which files had been transferred: every file that has left
\* its original path is named in what the call hands back.
C26_MoveTellsWhatWasMoved ==
  (pm_call.op = "batch_move_files" /\ pm_ret.raised) =>
    \A i \in 1..Len(pm_call.source_files) :
      Gone(i) => \E k \in 1..Len(pm_ret.target_paths) : pm_ret.target_paths[k] = TargetOf(i)

\* C27: no step of a run changes the set of registered modules, any
\* descriptor (its static configuration included) or the ordered step list:
\* they are after the run what they were before it.  The dispatch of a local
\* module writes the input directory into a copy of the module's
\* configuration, never into the registered one.
C27_RegistryReadOnly ==
  [][modules' = modules /\ pipeline_steps' = pipeline_steps]_vars

\* a local dispatch has prepared its parameters, the input directory among
\* them, and the registered configuration holds no such entry
C27_Witness ==
  /\ pc = "validate"
  /\ "video_path" \in DOMAIN init_params
  /\ "video_path" \notin DOMAIN modules[step.module_name].config
  /\ modules = Registry

\* the state of the run's state machine a position of run() belongs to: a
\* run that returns its report from the except clause of line 164, or an
\* empty one from line 123, has halted; one that an exception has left is
\* in no state of the machine
RunStateOf(p) ==
  CASE p = "idle" -> "Idle"
    [] p = "completed" -> "Completed"
    [] p \in {"returned", "returned_empty"} -> "Halted"
    [] p = "raised" -> "Raised"
    [] OTHER -> "Running"

\* the moves of the state machine; a run whose input directory does not
\* exist halts on entry (lines 121-123)
MachineMove(a, b) ==
  \/ a = b
  \/ a = "Idle" /\ b \in {"Running", "Halted"}
  \/ a = "Running" /\ b \in {"Completed", "Halted"}

\* C28: a run moves only along Idle -> Running -> Completed or
\* Idle -> Running -> Halted, and once it is Completed or Halted no step is
\* executed and no report entry is added.
C28_RunStateMachine ==
  [][/\ MachineMove(RunStateOf(pc), RunStateOf(pc'))
     /\ RunStateOf(pc) \in {"Completed", "Halted"} =>
          all_results' = all_results /\ log' = log]_vars

\* C29: the report a step appends names as input_dir the directory the step
\* consumed (the run's input directory for the first executed step, the
\* output directory of the step executed before it otherwise), and its
\* input counts are those of the classification the step consumed.
C29_ReportNamesConsumedInput ==
  [][(pc = "endstep" /\ pc' = "loop") =>
       LET report == all_results'[Len(all_results')]
       IN  /\ report.input_dir = current_dir
           /\ report.input_classified = [c \in Cat |-> Len(current_classified[c])]]_vars

\* the module of the step is external and its script is not on disk
MissingScript ==
  /\ modules[step.module_name].type = "external"
  /\ modules[step.module_name].path \notin ExistingScripts

\* the categories the process loop has dealt with: those before its position
\* that hold files
Handled ==
  {process_types[j] : j \in {i \in 1..Len(process_types) :
       i < pos /\ current_classified[process_types[i]] # <<>>}}

\* C30: when the script of an external module is not on disk at dispatch
\* time, no child process is launched and no temporary file is created,
\* the dispatch fails, and the step's result holds for every category dealt
\* with one process-stage error and no processed entry.
C30_MissingScriptNeverLaunched ==
  MissingScript =>
    /\ tmp = {}
    /\ envCalls = 0
    /\ child.raised = None
    /\ SelectSeq(log, LAMBDA e : e.kind = "launch") = <<>>
    /\ pc \notin {"env_create", "env_run", "env_finish"}
    /\ pc = "record" => outcome = "error"
    /\ pc \in {"process", "endstep"} =>
         \A t \in Handled :
           /\ Len(StageErrors(step_result.errors, t, "process")) = 1
           /\ t \notin step_result.module_details
           /\ t \notin Range(step_result.processed_types)

\* the images have been staged without a fault and dispatched to the module
\* whose script is missing: the step's result holds their process error
C30_Witness ==
  /\ MissingScript
  /\ pc = "process"
  /\ pos = 2
  /\ faults = 0
  /\ <<"a", "_image_input", "p.jpg">> \in DOMAIN fs
  /\ step_result.errors = <<[type |-> "image", stage |-> "process"]>>
  /\ tmp = {}

(***************************************************************************)
(* C31..C35: what a step stages, dispatches, bridges and leaves behind.    *)
(***************************************************************************)
\* the dispatches of step k for category t
Dispatches(k, t) ==
  SelectSeq(log, LAMBDA e : e.kind = "dispatch" /\ e.step = k /\ e.type = t)

\* the files that lie directly in directory d
FilesIn(f, d) == {q \in DOMAIN f : IsUnder(q, d) /\ Len(q) = Len(d) + 1}

\* the staging directory of category t holds a copy of each input file of
\* the category, and nothing else
StagedExactly(t) ==
  LET dir == join(output_dir, StagingName(t))
      src == current_classified[t]
  IN  /\ Cardinality(FilesIn(fs, dir)) = Len(src)
      /\ \A i \in 1..Len(src) :
           /\ join(dir, basename(src[i])) \in DOMAIN fs
           /\ src[i] \in DOMAIN fs
           /\ fs[join(dir, basename(src[i]))] = fs[src[i]]

\* C31: in a step that no fault strikes, the module is dispatched exactly
\* once for each category that is not skipped and has input files, never for
\* a skipped or an empty category, and at each dispatch the category's
\* staging directory under the step's output directory holds copies of
\* exactly that category's input files.
C31_DispatchCoverage ==
  faults = 0 =>
    /\ pc = "dispatch" =>
         /\ file_type \notin Range(skip_types)
         /\ current_classified[file_type] # <<>>
         /\ StagedExactly(file_type)
    /\ pc = "endstep" =>
         \A t \in Cat :
           Len(Dispatches(idx, t)) =
             IF t \notin Range(skip_types) /\ current_classified[t] # <<>> THEN 1 ELSE 0

\* how often category t is named in the three lists of the step's result
TimesBridged(t)   == Len(Entries(step_result.bridged, t))
TimesProcessed(t) == Len(SelectSeq(step_result.processed_types, LAMBDA x : x = t))
TimesFailed(t)    == Len(Entries(step_result.errors, t))

\* C32: in the result a step hands to its report no category is both
\* bridged and processed (named in processed_types or module_details), and
\* every category that has an input file is named exactly once in bridged,
\* processed_types and errors taken together.
C32_BridgedProcessedDisjointExhaustive ==
  pc = "endstep" =>
    \A t \in Cat :
      /\ ~(TimesBridged(t) > 0 /\ (TimesProcessed(t) > 0 \/ t \in step_result.module_details))
      /\ current_classified[t] # <<>> =>
           TimesBridged(t) + TimesProcessed(t) + TimesFailed(t) = 1

\* a step ends with its images bridged, its videos processed and no error
C32_Witness ==
  /\ pc = "endstep"
  /\ TimesBridged("image") = 1
  /\ TimesProcessed("video") = 1
  /\ step_result.errors = <<>>
  /\ current_classified["image"] # <<>>
  /\ current_classified["video"] # <<>>

\* the loop of run() stands on a step whose bridge action is neither copy
\* nor move
AtInvalidAction ==
  /\ pc = "loop"
  /\ idx <= Len(pipeline_steps)
  /\ step.bridge.action \notin {"copy", "move"}

\* the run returns what it has accumulated, and the step has had no effect
RejectedWithoutEffect ==
  /\ pc' = "returned"
  /\ UNCHANGED <<fs, dirs, tmp, all_results, log, envCalls, step_result>>

JustBridged ==
  /\ pc = "bridge"
  /\ log # <<>>
  /\ log[Len(log)].kind = "bridge"
  /\ log[Len(log)].step = idx
  /\ pm_call.op \in {"batch_copy_files", "batch_move_files"}
  /\ ~pm_ret.raised

\* the i-th file of the transfer was skipped: the policy is overwrite = false
\* and its target existed when its turn came
SkippedAt(i) ==
  /\ ~Overwriting
  /\ \/ TargetOf(i) \in DOMAIN pm_call.before
     \/ \E j \in 1..(i - 1) : TargetOf(j) = TargetOf(i)

\* C34: a batch transfer returns one target path per source file, also for
\* the files it skipped because the target existed and overwrite = false; a
\* source file that a batch move skipped is still at its original path; and
\* the bridged entry of the step's result counts every source file, the
\* skipped ones too.
C34_SkippedCountedAsTransferred ==
  JustBridged =>
    LET src   == pm_call.source_files
        entry == step_result.bridged[Len(step_result.bridged)]
    IN  /\ Len(pm_ret.target_paths) = Len(src)
        /\ \A i \in 1..Len(src) :
             /\ pm_ret.target_paths[i] = TargetOf(i)
             /\ (SkippedAt(i) /\ pm_call.op = "batch_move_files") =>
                  /\ src[i] \in DOMAIN fs
                  /\ fs[src[i]] = pm_call.before[src[i]]
        /\ step_result.bridged # <<>>
        /\ entry.type = log[Len(log)].type
        /\ entry.count = Len(src)

\* two images named p.jpg have been bridged by move: the second was skipped
\* and is still in the input directory, and the bridged entry counts two
C34_Witness ==
  /\ JustBridged
  /\ pm_call.op = "batch_move_files"
  /\ pm_call.source_files = << <<"in", "p.jpg">>, <<"in", "sub", "p.jpg">> >>
  /\ SkippedAt(2)
  /\ <<"in", "sub", "p.jpg">> \in DOMAIN fs
  /\ <<"in", "p.jpg">> \notin DOMAIN fs
  /\ step_result.bridged[Len(step_result.bridged)].count = 2

\* run() stands inside a step: current_classified is what the step consumes
InStep ==
  pc \in {"bridge", "process", "dispatch", "validate", "construct", "env_create",
          "env_run", "env_finish", "record", "endstep"}

\* C35: throughout a step and at its end, every file of the classification
\* the step consumes that is no longer at its original path belongs to a
\* skipped category of a step whose bridge action is move: the files of the
\* categories handed to the module are only copied, whatever the action.
C35_ProcessingKeepsInput ==
  InStep =>
    \A t \in Cat : \A i \in 1..Len(current_classified[t]) :
      current_classified[t][i] \notin DOMAIN fs =>
        (t \in Range(skip_types) /\ step.bridge.action = "move")

\* a step with action move ends: its images were bridged out of the input
\* directory, its video was processed and is still where it was
C35_Witness ==
  /\ pc = "endstep"
  /\ idx = 1
  /\ step.bridge.action = "move"
  /\ TimesProcessed("video") = 1
  /\ <<"in", "v.mp4">> \in DOMAIN fs
  /\ <<"in", "p.jpg">> \notin DOMAIN fs

=============================================================================
